---- MODULE Spec2Model ----
(***************************************************************************)
(* A model of the QOA codec of this repository: the fixed tables and the   *)
(* rounding divide, the LMS predictor, the slice scalers (linear and       *)
(* vector), the wire layout (file header, frame header, LMS prelude and    *)
(* slice words) and the streaming decoder.                                 *)
(*                                                                         *)
(* Machine integers keep their width.  TLC's own integers are 32 bits      *)
(* wide, so every operation whose intermediate value may leave that range  *)
(* (a wrapping i32 product, an i64 product, a u64 error sum, a 64-bit      *)
(* word) is computed on 16-bit limbs; the values are the ones the Rust     *)
(* code computes with wrapping arithmetic.                                 *)
(***************************************************************************)
EXTENDS Integers, Sequences, FiniteSets, TLC

VARIABLES
    sc_samples,     \* scaler: the interleaved sample window (samples: &[i16])
    sc_channels,    \* scaler: channel_count
    sc_chn,         \* scaler: chn
    sc_lms0,        \* scaler: the LMS state the caller passed in
    lin,            \* outcome of LinearScaler::scale on that input
    vec,            \* outcome of VectorScaler::scale on that input
    wire_in,        \* wire: the value handed to an encoding function
    wire_bytes,     \* wire: the bytes that function wrote
    wire_out,       \* wire: what the decoding functions read back from them
    dc_file,        \* decoder: the bytes of the file being decoded
    dc_source,      \* decoder: the bytes left in the source stream
    dc_dec,         \* decoder: the fields of the Decoder
    dc_sink,        \* decoder: what the PCM sink has received
    dc_ret,         \* decoder: the outcome of the last decode_frame call
    dv_v,           \* divide: the dividend v
    dv_sf,          \* divide: the scale factor sf
    dv_scalar,      \* divide: what lib.rs div returned
    dv_vector,      \* divide: what lane sf of simd.rs div returned
    lm_in,          \* LMS: the state, sample and residual handed to the LMS functions
    lm_pred,        \* LMS: what predict returned in each implementation
    lm_upd,         \* LMS: the state update left in each implementation
    en_enc,         \* encoder: the fields of the Encoder, its sink included
    en_ret,         \* encoder: the last call made and what it returned
    en_log,         \* encoder: the constructor call and the samples delivered so far
    en_out,         \* encoder: the sink close() handed back
    bd_file,        \* byte-slice decoder: the bytes handed to Decoder::decode
    bd_dec,         \* byte-slice decoder: the fields of the Decoder
    bd_sink,        \* byte-slice decoder: the samples appended to the sink
    bd_ret,         \* byte-slice decoder: what Decoder::decode returned
    pcm_buf,        \* PCM: the frames of a PcmBuffer that is read from
    pcm_sink,       \* PCM: the fields of a PcmFrame that is written to
    pcm_read,       \* PCM: the PcmBuffer::read call in progress, or what it returned
    pcm_log,        \* PCM: the blocks written to the frame through write(buf, chn)
    qe_enc,         \* QoaEncoder: its options and its source
    qe_log,         \* QoaEncoder: the arguments QoaEncoder::new was called with
    qe_sink,        \* QoaEncoder: the writes made to the sink of encode
    qe_ret,         \* QoaEncoder: what encode returned
    wg_lms,         \* LMS run: the state of one channel
    wg_log,         \* LMS run: who updates, the updates made, the last one's sums
    drv,            \* slice driver: outcome of QoaSink::enc_slice on the scaler's input
    rep             \* slice replay: outcome of the decoders' sample loops on the scaler's word

scVars   == <<sc_samples, sc_channels, sc_chn, sc_lms0, lin, vec>>
wireVars == <<wire_in, wire_bytes, wire_out>>
dcVars   == <<dc_file, dc_source, dc_dec, dc_sink, dc_ret>>
dvVars   == <<dv_v, dv_sf, dv_scalar, dv_vector>>
lmVars   == <<lm_in, lm_pred, lm_upd>>
enVars   == <<en_enc, en_ret, en_log, en_out>>
bdVars   == <<bd_file, bd_dec, bd_sink, bd_ret>>
pcmVars  == <<pcm_buf, pcm_sink, pcm_read, pcm_log>>
qeVars   == <<qe_enc, qe_log, qe_sink, qe_ret>>
wgVars   == <<wg_lms, wg_log>>
drVars   == <<drv, rep>>
lateVars == <<pcmVars, qeVars, wgVars, drVars>>
moreVars == <<lmVars, enVars, bdVars, lateVars>>
vars     == <<scVars, wireVars, dcVars, dvVars, moreVars>>

(***************************************************************************)
(* Bounds of the model.                                                    *)
(***************************************************************************)
MaxChannels == 2    \* channel counts 1..MaxChannels
MaxShort    == 2    \* short windows hold 1..MaxShort samples per channel
MaxFrames   == 2    \* a file holds 0..MaxFrames frames
MaxFrameSamples == 2    \* a frame declares 1..MaxFrameSamples samples

(***************************************************************************)
(* Program constants.                                                      *)
(***************************************************************************)
SLICE_LEN == 20

QUANT_TABLE == <<7, 7, 7, 5, 5, 3, 3, 1, 0, 0, 2, 2, 4, 4, 6, 6, 6>>

RECIP_TABLE ==
    <<65536, 9363, 3121, 1457, 781, 475, 311, 216,
      156, 117, 90, 71, 57, 47, 39, 32>>

DEQUANT_TABLE == <<
    <<   1,    -1,    3,    -3,    5,    -5,     7,     -7>>,
    <<   5,    -5,   18,   -18,   32,   -32,    49,    -49>>,
    <<  16,   -16,   53,   -53,   95,   -95,   147,   -147>>,
    <<  34,   -34,  113,  -113,  203,  -203,   315,   -315>>,
    <<  63,   -63,  210,  -210,  378,  -378,   588,   -588>>,
    << 104,  -104,  345,  -345,  621,  -621,   966,   -966>>,
    << 158,  -158,  528,  -528,  950,  -950,  1477,  -1477>>,
    << 228,  -228,  760,  -760, 1368, -1368,  2128,  -2128>>,
    << 316,  -316, 1053, -1053, 1895, -1895,  2947,  -2947>>,
    << 422,  -422, 1405, -1405, 2529, -2529,  3934,  -3934>>,
    << 548,  -548, 1828, -1828, 3290, -3290,  5117,  -5117>>,
    << 696,  -696, 2320, -2320, 4176, -4176,  6496,  -6496>>,
    << 868,  -868, 2893, -2893, 5207, -5207,  8099,  -8099>>,
    <<1064, -1064, 3548, -3548, 6386, -6386,  9933,  -9933>>,
    <<1286, -1286, 4288, -4288, 7718, -7718, 12005, -12005>>,
    <<1536, -1536, 5120, -5120, 9216, -9216, 14336, -14336>> >>

(***************************************************************************)
(* Fixed-width integers.                                                   *)
(***************************************************************************)
Min(a, b) == IF a < b THEN a ELSE b
Max(a, b) == IF a < b THEN b ELSE a
Clamp(x, lo, hi) == Max(lo, Min(x, hi))

\* x as i16 / x as u16 / x as u8, for an x in the i32 range
ToU16(x) == x % 65536
ToI16(x) == IF (x % 65536) >= 32768 THEN (x % 65536) - 65536 ELSE x % 65536
ToU8(x)  == x % 256

\* The high (signed) and low (unsigned) 16-bit limbs of an i32.
Hi16(x) == x \div 65536
Lo16(x) == x % 65536
\* The i32 whose limbs are h (taken modulo 2^16) and l (0..65535).
FromLimbs(h, l) == ToI16(h) * 65536 + l

\* a + b in i32, wrapping.
AddI32(a, b) ==
    LET l == Lo16(a) + Lo16(b)
    IN  FromLimbs(Hi16(a) + Hi16(b) + l \div 65536, l % 65536)

\* The 32-bit product of two 16-bit unsigned limbs, as <<high, low>> limbs.
Mul16(a, b) ==
    LET a1 == a \div 256
        a0 == a % 256
        b1 == b \div 256
        b0 == b % 256
        mid == a1 * b0 + a0 * b1
        t == (mid % 256) * 256 + a0 * b0
    IN  <<(a1 * b1 + mid \div 256 + t \div 65536) % 65536, t % 65536>>

\* a * b in i32, wrapping.
MulI32(a, b) ==
    LET p == Mul16(Lo16(a), Lo16(b))
        h == p[1] + ((Hi16(a) * Lo16(b)) % 65536) + ((Lo16(a) * Hi16(b)) % 65536)
    IN  FromLimbs(h, p[2])

Sign(x) == IF x > 0 THEN 1 ELSE IF x < 0 THEN -1 ELSE 0

(***************************************************************************)
(* A 64-bit word is its four 16-bit limbs <<l3, l2, l1, l0>>, the most     *)
(* significant first: the word's value is l3*2^48 + l2*2^32 + l1*2^16 + l0.*)
(***************************************************************************)
Pow2Table ==
    <<1, 2, 4, 8, 16, 32, 64, 128, 256, 512, 1024, 2048, 4096, 8192, 16384,
      32768, 65536>>
Pow2(n) == Pow2Table[n + 1]

\* n as u64, for a natural number n < 2^31.
U64(n) == <<0, 0, n \div 65536, n % 65536>>

\* Limb i (1 = most significant) of w, zero outside the word.
Limb(w, i) == IF i >= 1 /\ i <= 4 THEN w[i] ELSE 0

\* w << k and w >> k on u64, 0 <= k < 64: the bits shifted out are lost.
ShlLimb(w, k, i) ==
    ((Limb(w, i + (k \div 16)) * Pow2(k % 16)) % 65536) +
    (Limb(w, i + (k \div 16) + 1) \div Pow2(16 - (k % 16)))
ShrLimb(w, k, i) ==
    (Limb(w, i - (k \div 16)) \div Pow2(k % 16)) +
    ((Limb(w, i - (k \div 16) - 1) % Pow2(k % 16)) * Pow2(16 - (k % 16)))
Shl(w, k) == <<ShlLimb(w, k, 1), ShlLimb(w, k, 2), ShlLimb(w, k, 3), ShlLimb(w, k, 4)>>
Shr(w, k) == <<ShrLimb(w, k, 1), ShrLimb(w, k, 2), ShrLimb(w, k, 3), ShrLimb(w, k, 4)>>

\* a | b and a & b on 16-bit limbs, and w | v on u64.
RECURSIVE Or16(_, _)
Or16(a, b) ==
    IF a = 0 THEN b ELSE IF b = 0 THEN a
    ELSE Max(a % 2, b % 2) + 2 * Or16(a \div 2, b \div 2)
RECURSIVE And16(_, _)
And16(a, b) ==
    IF a = 0 \/ b = 0 THEN 0
    ELSE Min(a % 2, b % 2) + 2 * And16(a \div 2, b \div 2)
Or(w, v) == <<Or16(w[1], v[1]), Or16(w[2], v[2]), Or16(w[3], v[3]), Or16(w[4], v[4])>>

\* Bit b (63 = most significant) of the word w.
Bit(w, b) == (w[4 - (b \div 16)] \div Pow2(b % 16)) % 2

\* The value of bits hi..lo of the word w (hi - lo < 31).
RECURSIVE Field(_, _, _)
Field(w, hi, lo) ==
    IF hi < lo THEN 0 ELSE Bit(w, lo) + 2 * Field(w, hi, lo + 1)

(***************************************************************************)
(* The u64 error sums: <<h, l>> stands for h * 2^16 + l, 0 <= l < 2^16.    *)
(***************************************************************************)
\* e * e for a sample error e, |e| <= 65535.
SqBig(e) ==
    IF e = 0 THEN <<0, 0>>
    ELSE LET a == IF e < 0 THEN -e ELSE e
             p == Mul16(a, a)
         IN  <<p[1], p[2]>>
AddBig(x, y) == <<x[1] + y[1] + (x[2] + y[2]) \div 65536, (x[2] + y[2]) % 65536>>
LessBig(x, y) == x[1] < y[1] \/ (x[1] = y[1] /\ x[2] < y[2])

(***************************************************************************)
(* The rounding divide.                                                    *)
(***************************************************************************)
\* lib.rs div: every operation is on i32.
div(v, sf) ==
    LET recip == RECIP_TABLE[sf + 1]
        n == AddI32(MulI32(v, recip), 32768) \div 65536
    IN  AddI32(n, Sign(v) - Sign(n))

\* (v * recip + 2^15) >> 16 on i64, for an i32 v and 0 < recip <= 2^16.
MulAddShr64(v, recip) ==
    LET a == Lo16(v) \div 256
        b == Lo16(v) % 256
    IN  Hi16(v) * recip + (a * recip + (b * recip + 32768) \div 256) \div 256

\* simd.rs div, lane sf: the product is on i64, the result cast to i32.
vec_div(v, sf) ==
    LET n == MulAddShr64(v, RECIP_TABLE[sf + 1])
    IN  AddI32(n, Sign(v) - Sign(n))

(***************************************************************************)
(* The LMS predictor.  A state is [history, weights], four lanes each.     *)
(***************************************************************************)
DefaultLms == [history |-> <<0, 0, 0, 0>>, weights |-> <<0, 0, -8192, 16384>>]

\* sum + product on i32, wrapping; a sum of 0 leaves the product.
PredictAdd(sum, product) == IF sum = 0 THEN product ELSE AddI32(sum, product)

\* QoaLmsState::predict: an i32 fold over i16 lanes.
RECURSIVE PredictFold(_, _)
PredictFold(lms, n) ==
    IF n = 0 THEN 0
    ELSE PredictAdd(PredictFold(lms, n - 1), lms.weights[n] * lms.history[n])

predict(lms) == PredictFold(lms, 4) \div 8192

\* QoaLmsState::update: i16 lanes.
UpdateWeight(lms, delta, i) ==
    ToI16(lms.weights[i] + (IF lms.history[i] < 0 THEN ToI16(-delta) ELSE delta))

update(lms, sample, residual) ==
    LET delta == ToI16(residual \div 16)
    IN  [history |-> <<lms.history[2], lms.history[3], lms.history[4], sample>>,
         weights |-> <<UpdateWeight(lms, delta, 1), UpdateWeight(lms, delta, 2),
                       UpdateWeight(lms, delta, 3), UpdateWeight(lms, delta, 4)>>]

\* The sum of the products of predict leaves the i32 range at one of its
\* additions (each product of two i16 lanes fits): with overflow checks
\* predict panics there, without them the sum wraps.
RECURSIVE PredictOverflows(_, _)
PredictOverflows(lms, n) ==
    IF n = 0 THEN FALSE
    ELSE \/ PredictOverflows(lms, n - 1)
         \/ LET a == PredictFold(lms, n - 1)
                 b == lms.weights[n] * lms.history[n]
             IN  (Hi16(a) + Hi16(b) + ((Lo16(a) + Lo16(b)) \div 65536)) \notin -32768..32767

\* decoder/bytes.rs LmsState::predict: the i16 lanes widened to i32, their
\* products summed as i32.
RECURSIVE BytesPredictSum(_, _)
BytesPredictSum(lms, n) ==
    IF n = 0 THEN 0
    ELSE AddI32(BytesPredictSum(lms, n - 1), lms.history[n] * lms.weights[n])

bytes_predict(lms) == BytesPredictSum(lms, 4) \div 8192

\* decoder/bytes.rs LmsState::update: each weight is assigned delta or
\* -delta (i16), the history moved down by one.
bytes_update(lms, sample, residual) ==
    LET delta == ToI16(residual \div 16)
        w(i)  == IF lms.history[i] < 0 THEN ToI16(-delta) ELSE delta
    IN  [history |-> <<lms.history[2], lms.history[3], lms.history[4], sample>>,
         weights |-> <<w(1), w(2), w(3), w(4)>>]

\* simd.rs LmsState::predict: the lanes cast to i64, multiplied and summed
\* there, the sum shifted right by 13 and cast to i32.  The i64 sum is kept
\* as <<q, r>>, standing for q * 2^13 + r with 0 <= r < 4 * 2^13.
RECURSIVE SimdPredictSum(_, _)
SimdPredictSum(lms, n) ==
    IF n = 0 THEN <<0, 0>>
    ELSE LET acc == SimdPredictSum(lms, n - 1)
             p   == lms.history[n] * lms.weights[n]
         IN  <<acc[1] + (p \div 8192), acc[2] + (p % 8192)>>

simd_predict(lms) ==
    LET sum == SimdPredictSum(lms, 4)
    IN  AddI32(sum[1] + (sum[2] \div 8192), 0)

\* simd.rs LmsState::update: i32 lanes.
SimdUpdateWeight(lms, delta, i) ==
    AddI32(lms.weights[i], IF lms.history[i] < 0 THEN AddI32(0, -delta) ELSE delta)

simd_update(lms, sample, residual) ==
    LET delta == residual \div 16
    IN  [history |-> <<lms.history[2], lms.history[3], lms.history[4], sample>>,
         weights |-> <<SimdUpdateWeight(lms, delta, 1), SimdUpdateWeight(lms, delta, 2),
                       SimdUpdateWeight(lms, delta, 3), SimdUpdateWeight(lms, delta, 4)>>]

(***************************************************************************)
(* The linear slice scaler.                                                *)
(***************************************************************************)
\* LinearScaler::scale_sample: every value it computes, in the order it
\* computes them, and the LMS state it leaves.
scale_sample(sample, sf, lms) ==
    LET predicted   == predict(lms)
        residual    == sample - predicted
        scaled      == div(residual, sf)
        clamped     == Clamp(scaled, -8, 8)
        quantized   == QUANT_TABLE[clamped + 8 + 1]
        dequantized == DEQUANT_TABLE[sf + 1][quantized + 1]
        reconst     == Clamp(predicted + dequantized, -32768, 32767)
    IN  [predicted |-> predicted, residual |-> residual, scaled |-> scaled,
         quantized |-> quantized, dequantized |-> dequantized,
         reconst |-> reconst, lms |-> update(lms, reconst, dequantized)]

\* The samples[si] a scaler reads: si in chn .. len * channel_count + chn,
\* step channel_count (0-based), as 1-based positions of the window.
ReadIndices(samples, chn, channel_count) ==
    [k \in 1..Min(SLICE_LEN, Len(samples)) |-> chn + (k - 1) * channel_count + 1]

\* What the closure of the fold of LinearScaler::scale gives from acc, the
\* sample read and what scale_sample gave for it.
LinearStepped(acc, sample, r) ==
    [status |-> "ok",
     lms    |-> r.lms,
     slice  |-> Or(Shl(acc.slice, 3), U64(r.quantized)),
     error  |-> AddBig(acc.error, SqBig(sample - r.reconst))]

\* One step of the fold of LinearScaler::scale, for scale factor sf: sample
\* k of the range.  Indexing samples out of bounds panics.
LinearStep(acc, sf, samples, rng, k) ==
    IF rng[k] > Len(samples) THEN [status |-> "panic"]
    ELSE LinearStepped(acc, samples[rng[k]],
                       scale_sample(samples[rng[k]], sf, acc.lms))

\* One candidate of LinearScaler::scale: the fold over the len indices of
\* rng, for scale factor sf, from a copy of the caller's LMS state.  A panic
\* ends the fold.  The fold over lo..hi is the fold over its first half
\* followed by the fold over its second half.
LinearFold(sf, lms, samples, rng, len) ==
    LET RECURSIVE Fold(_, _, _)
        Fold(acc, lo, hi) ==
            IF acc.status = "panic" \/ lo > hi THEN acc
            ELSE IF lo = hi THEN LinearStep(acc, sf, samples, rng, lo)
            ELSE Fold(Fold(acc, lo, (lo + hi) \div 2), (lo + hi) \div 2 + 1, hi)
    IN  Fold([status |-> "ok", lms |-> lms, slice |-> U64(sf), error |-> <<0, 0>>],
             1, len)

\* The candidates of scale factors lo..hi, in the order (0..16).map makes
\* them: of all 16, candidate sf is element sf + 1.
LinearCands(lms, samples, rng, len) ==
    LET RECURSIVE Cands(_, _)
        Cands(lo, hi) ==
            IF lo = hi THEN <<LinearFold(lo, lms, samples, rng, len)>>
            ELSE Cands(lo, (lo + hi) \div 2) \o Cands((lo + hi) \div 2 + 1, hi)
    IN  Cands(0, 15)

\* A selection in which the last minimum wins instead of the first.
MinByKeyLast(cands) ==
    LET RECURSIVE MinOf(_, _)
        MinOf(lo, hi) ==
            IF lo = hi THEN lo
            ELSE LET a == MinOf(lo, (lo + hi) \div 2)
                     b == MinOf((lo + hi) \div 2 + 1, hi)
                 IN  IF LessBig(cands[a].error, cands[b].error) THEN a ELSE b
    IN  MinOf(1, Len(cands))

\* Iterator::min_by_key over the candidates: the first minimum wins, that of
\* lo..hi being that of the first half unless the second half's is less.
MinByKey(cands) ==
    LET RECURSIVE MinOf(_, _)
        MinOf(lo, hi) ==
            IF lo = hi THEN lo
            ELSE LET a == MinOf(lo, (lo + hi) \div 2)
                     b == MinOf((lo + hi) \div 2 + 1, hi)
                 IN  IF LessBig(cands[b].error, cands[a].error) THEN b ELSE a
    IN  MinOf(1, Len(cands))

\* LinearScaler::scale.  The outcome is "ok" with the word returned, the LMS
\* state left to the caller and the candidates evaluated, or "panic" when an
\* index is out of the window's bounds: the caller's state is then untouched.
\* What LinearScaler::scale returns and leaves once min_by_key has chosen
\* candidate best: its word shifted for a short window, and its state.
LinearBest(cands, len, best) ==
    [status |-> "ok",
     word   |-> Shl(cands[best].slice, (SLICE_LEN - len) * 3),
     lms    |-> cands[best].lms,
     len    |-> len,
     cands  |-> cands]

\* LinearScaler::scale from the 16 candidates on.
LinearPick(lms, len, cands) ==
    IF \E i \in 1..16 : cands[i].status = "panic"
    THEN [status |-> "panic", lms |-> lms]
    ELSE LinearBest(cands, len, MinByKey(cands))

LinearScale(samples, lms, chn, channel_count) ==
    LinearPick(lms, Min(SLICE_LEN, Len(samples)),
               LinearCands(lms, samples, ReadIndices(samples, chn, channel_count),
                           Min(SLICE_LEN, Len(samples))))

(***************************************************************************)
(* The vector slice scaler: 16 lanes, one per scale factor, each with an   *)
(* LMS state of i32 lanes.                                                 *)
(***************************************************************************)
\* LmsStateVector::predict, one lane: i32 products and sum.
RECURSIVE VecPredictSum(_, _)
VecPredictSum(lms, n) ==
    IF n = 0 THEN 0
    ELSE AddI32(VecPredictSum(lms, n - 1), MulI32(lms.history[n], lms.weights[n]))

vec_predict(lms) == VecPredictSum(lms, 4) \div 8192

\* LmsStateVector::update, one lane.
VecUpdateWeight(lms, delta, i) ==
    AddI32(lms.weights[i], IF lms.history[i] < 0 THEN AddI32(0, -delta) ELSE delta)

vec_update(lms, sample, residual) ==
    LET delta == residual \div 16
    IN  [history |-> <<lms.history[2], lms.history[3], lms.history[4], sample>>,
         weights |-> <<VecUpdateWeight(lms, delta, 1), VecUpdateWeight(lms, delta, 2),
                       VecUpdateWeight(lms, delta, 3), VecUpdateWeight(lms, delta, 4)>>]

\* VectorScaler::scale_sample, lane sf.
vec_scale_sample(sample, sf, lms) ==
    LET prediction  == vec_predict(lms)
        residual    == sample - prediction
        scaled      == vec_div(residual, sf)
        clamped     == Clamp(scaled, -8, 8)
        quantized   == QUANT_TABLE[clamped + 8 + 1]
        dequantized == DEQUANT_TABLE[sf + 1][quantized + 1]
        reconst     == Clamp(prediction + dequantized, -32768, 32767)
    IN  [prediction |-> prediction, residual |-> residual, scaled |-> scaled,
         quantized |-> quantized, dequantized |-> dequantized, reconst |-> reconst]

\* What one iteration of the loop of VectorScaler::scale makes of lane acc,
\* given the sample read and what scale_sample gave for it.
VectorStepped(acc, sample, r) ==
    [status |-> "ok",
     lms    |-> vec_update(acc.lms, r.reconst, r.dequantized),
     slice  |-> Or(Shl(acc.slice, 3), U64(r.quantized)),
     error  |-> AddBig(acc.error, SqBig(sample - r.reconst))]

\* One iteration of the loop of VectorScaler::scale, lane sf: sample k of the
\* range.  Indexing samples out of bounds panics.
VectorStep(acc, sf, samples, rng, k) ==
    IF rng[k] > Len(samples) THEN [status |-> "panic"]
    ELSE VectorStepped(acc, samples[rng[k]],
                       vec_scale_sample(samples[rng[k]], sf, acc.lms))

\* Lane sf of the loop of VectorScaler::scale over the len indices of rng.
VectorLoop(sf, lms, samples, rng, len) ==
    LET RECURSIVE Loop(_, _, _)
        Loop(acc, lo, hi) ==
            IF acc.status = "panic" \/ lo > hi THEN acc
            ELSE IF lo = hi THEN VectorStep(acc, sf, samples, rng, lo)
            ELSE Loop(Loop(acc, lo, (lo + hi) \div 2), (lo + hi) \div 2 + 1, hi)
    IN  Loop([status |-> "ok", lms |-> lms, slice |-> U64(sf), error |-> <<0, 0>>],
             1, len)

\* The 16 lanes after the loop: lane sf is element sf + 1.
VectorLanes(lms, samples, rng, len) ==
    LET RECURSIVE Lanes(_, _)
        Lanes(lo, hi) ==
            IF lo = hi THEN <<VectorLoop(lo, lms, samples, rng, len)>>
            ELSE Lanes(lo, (lo + hi) \div 2) \o Lanes((lo + hi) \div 2 + 1, hi)
    IN  Lanes(0, 15)

\* VectorScaler::scale.
\* What VectorScaler::scale returns and leaves once lane best_i is chosen:
\* slices[best_i] as it is, and the lane's state collapsed.
VectorBest(lanes, len, best_i) ==
    [status |-> "ok",
     word   |-> lanes[best_i].slice,
     lms    |-> lanes[best_i].lms,
     len    |-> len]

\* VectorScaler::scale from the 16 lanes on.
VectorPick(lms, len, lanes) ==
    IF \E i \in 1..16 : lanes[i].status = "panic"
    THEN [status |-> "panic", lms |-> lms]
    ELSE VectorBest(lanes, len, MinByKey(lanes))

VectorScale(samples, lms, chn, channel_count) ==
    VectorPick(lms, Min(SLICE_LEN, Len(samples)),
               VectorLanes(lms, samples, ReadIndices(samples, chn, channel_count),
                           Min(SLICE_LEN, Len(samples))))

(***************************************************************************)
(* The wire format.  A stream is a sequence of bytes; a u32 is its two     *)
(* 16-bit limbs <<high, low>>.                                             *)
(***************************************************************************)
\* "qoaf" as a big-endian u32.
MAGIC == <<29039, 24934>>

\* to_be_bytes of a u16, a u32 and a u64.
BytesU16(x) == <<x \div 256, x % 256>>
BytesU32(n) == BytesU16(n[1]) \o BytesU16(n[2])
BytesU64(w) == BytesU16(w[1]) \o BytesU16(w[2]) \o BytesU16(w[3]) \o BytesU16(w[4])

\* u64::from_be_bytes of the eight bytes b.
FromBeBytes(b) ==
    <<b[1] * 256 + b[2], b[3] * 256 + b[4], b[5] * 256 + b[6], b[7] * 256 + b[8]>>

\* SourceStream::read_long on a byte source: the word of the next eight
\* bytes and the bytes left, or Eof when fewer than eight remain.  The
\* sources of this model hold whole words, so Eof finds the source empty.
read_long(source) ==
    IF Len(source) < 8 THEN [err |-> "Eof", source |-> source]
    ELSE [err |-> "", v |-> FromBeBytes(SubSeq(source, 1, 8)),
          source |-> SubSeq(source, 9, Len(source))]

\* A packing that puts residual i at bit 3 * i, the order of the residuals
\* reversed.
pack_reversed(slice) ==
    LET RECURSIVE Terms(_, _)
        Terms(lo, hi) ==
            IF lo = hi THEN Shl(U64(slice.data[lo + 1] % 8), lo * 3)
            ELSE Or(Terms(lo, (lo + hi) \div 2), Terms((lo + hi) \div 2 + 1, hi))
    IN  Or(Shl(U64(slice.quant), 60), Terms(0, 19))

\* QoaSlice::pack: quant << 60, or-ed with (data[i] & 7) << (19 - i) * 3 for
\* i in 0..20.  The or of the terms lo..hi is that of the two halves.
pack(slice) ==
    LET RECURSIVE Terms(_, _)
        Terms(lo, hi) ==
            IF lo = hi THEN Shl(U64(slice.data[lo + 1] % 8), (19 - lo) * 3)
            ELSE Or(Terms(lo, (lo + hi) \div 2), Terms((lo + hi) \div 2 + 1, hi))
    IN  Or(Shl(U64(slice.quant), 60), Terms(0, 19))

\* An unpacking that keeps only two bits of each residual.
unpack_bytes_narrow(value) ==
    LET v == FromBeBytes(value)
    IN  [quant |-> (Shr(v, 60)[4] % 256) % 16,
         data  |-> [i \in 1..20 |-> (Shr(v, (20 - i) * 3)[4] % 256) % 4]]

\* QoaSlice::unpack of lib.rs, from the eight bytes of the word.
unpack_bytes(value) ==
    LET v == FromBeBytes(value)
    IN  [quant |-> (Shr(v, 60)[4] % 256) % 16,
         data  |-> [i \in 1..20 |-> (Shr(v, (20 - i) * 3)[4] % 256) % 8]]

\* QoaSlice::unpack of decoder.rs: residual 19 down to 0 from the low three
\* bits, v >>= 3 after each, and quant from what is left, as u8.
unpack(v) ==
    [quant |-> Shr(v, 60)[4] % 256,
     resid |-> [i \in 1..20 |-> Shr(v, (20 - i) * 3)[4] % 8]]

\* The fold of enc_lms_state over four lanes:
\* acc = (acc << 16) | (cur as u16 & 0xFFFF).
RECURSIVE PackLanes(_, _)
PackLanes(lanes, n) ==
    IF n = 0 THEN U64(0)
    ELSE Or(Shl(PackLanes(lanes, n - 1), 16), U64(ToU16(lanes[n])))

\* enc_lms_state: the bytes it writes, history then weights.
enc_lms_state(lms) ==
    BytesU64(PackLanes(lms.history, 4)) \o BytesU64(PackLanes(lms.weights, 4))

\* A lane read without sign extension.
UnpackLaneUnsigned(w, i) == Shr(Shl(w, 16 * (i - 1)), 48)[4]

\* Lane i (1..4) of a packed word: (w >> 48) as i16 after i - 1 times
\* w <<= 16.
UnpackLane(w, i) == ToI16(Shr(Shl(w, 16 * (i - 1)), 48)[4])

\* dec_lms for one channel: two words read, each lane sign-extended.
dec_lms(source) ==
    LET h == read_long(source)
        w == IF h.err = "" THEN read_long(h.source) ELSE h
    IN  IF h.err # "" THEN [err |-> h.err, source |-> h.source]
        ELSE IF w.err # "" THEN [err |-> w.err, source |-> w.source]
        ELSE [err |-> "", source |-> w.source,
              lms |-> [history |-> <<UnpackLane(h.v, 1), UnpackLane(h.v, 2),
                                     UnpackLane(h.v, 3), UnpackLane(h.v, 4)>>,
                       weights |-> <<UnpackLane(w.v, 1), UnpackLane(w.v, 2),
                                     UnpackLane(w.v, 3), UnpackLane(w.v, 4)>>]]

\* LmsState::unpack of the byte-slice decoder, from the two words.
LmsState_unpack(history, weights) ==
    [history |-> <<UnpackLane(history, 1), UnpackLane(history, 2),
                   UnpackLane(history, 3), UnpackLane(history, 4)>>,
     weights |-> <<UnpackLane(weights, 1), UnpackLane(weights, 2),
                   UnpackLane(weights, 3), UnpackLane(weights, 4)>>]

\* The size field enc_frame_header computes, on u16.
FrameSize(channel_count, slice_count) ==
    (24 * channel_count + 8 * (slice_count % 65536) * channel_count) % 65536

\* enc_frame_header: channel count, the low three bytes of the rate, the
\* sample count and the size.  sample_rate is a u32 below 2^31 here.
enc_frame_header(channel_count, sample_rate, sample_count, slice_count) ==
    <<channel_count>>
    \o <<(sample_rate \div 65536) % 256, (sample_rate \div 256) % 256, sample_rate % 256>>
    \o BytesU16(sample_count)
    \o BytesU16(FrameSize(channel_count, slice_count))

\* A frame header read that keeps only the low 16 bits of the rate.
dec_frame_header_rate16(source) ==
    LET r == read_long(source)
    IN  IF r.err # "" THEN [err |-> r.err, source |-> r.source]
        ELSE [err |-> "", source |-> r.source,
              channels |-> Shr(r.v, 56)[4] % 256,
              rate     |-> Shr(r.v, 32)[4],
              samples  |-> Shr(r.v, 16)[4],
              size     |-> r.v[4]]

\* dec_frame_header: (channels, rate, samples, size) of the next word.
dec_frame_header(source) ==
    LET r == read_long(source)
    IN  IF r.err # "" THEN [err |-> r.err, source |-> r.source]
        ELSE [err |-> "", source |-> r.source,
              channels |-> Shr(r.v, 56)[4] % 256,
              rate     |-> (Shr(r.v, 32)[3] % 256) * 65536 + Shr(r.v, 32)[4],
              samples  |-> Shr(r.v, 16)[4],
              size     |-> r.v[4]]

\* Source::decode_frame_header of the byte-slice decoder.
decode_frame_header(source) ==
    LET r == read_long(source)
    IN  IF r.err # "" THEN [err |-> "Eos", source |-> r.source]
        ELSE [err |-> "", source |-> r.source,
              channels |-> Shr(r.v, 56)[4] % 256,
              rate     |-> (Shr(r.v, 32)[3] % 256) * 65536 + Shr(r.v, 32)[4],
              samples  |-> Shr(r.v, 16)[4],
              size     |-> Shr(r.v, 0)[4]]

\* enc_file_header: the magic, then the sample count.
enc_file_header(sample_count) == BytesU32(MAGIC) \o BytesU32(sample_count)

\* A dec_file_header that carries the bytes of the word's lower half.
dec_file_header_low(source) ==
    LET r == read_long(source)
        magic == <<Shr(r.v, 32)[3], Shr(r.v, 32)[4]>>
    IN  IF r.err # "" THEN [err |-> r.err, source |-> r.source]
        ELSE IF magic # MAGIC
             THEN [err |-> "UnknownMagic", bytes |-> BytesU32(<<r.v[3], r.v[4]>>),
                   source |-> r.source]
             ELSE [err |-> "", source |-> r.source, v |-> <<r.v[3], r.v[4]>>]

\* dec_file_header: UnknownMagic with the bytes of the upper half unless it
\* is the magic; else the lower half.
dec_file_header(source) ==
    LET r == read_long(source)
        magic == <<Shr(r.v, 32)[3], Shr(r.v, 32)[4]>>
    IN  IF r.err # "" THEN [err |-> r.err, source |-> r.source]
        ELSE IF magic # MAGIC
             THEN [err |-> "UnknownMagic", bytes |-> BytesU32(magic),
                   source |-> r.source]
             ELSE [err |-> "", source |-> r.source, v |-> <<r.v[3], r.v[4]>>]

(***************************************************************************)
(* The streaming decoder.  An Option is the sequence of its value, empty   *)
(* for None.  The PCM sink accepts every call and keeps what it was given. *)
(***************************************************************************)
\* Decoder::new.
NewDecoder == [samples |-> <<>>, header |-> TRUE, lms |-> <<>>]
NewSink == [descriptor |-> <<>>, writes |-> <<>>]

\* u32::saturating_sub of a u16 n from the u32 s.
SaturatingSub(s, n) ==
    IF s[2] >= n THEN <<s[1], s[2] - n>>
    ELSE IF s[1] = 0 THEN <<0, 0>>
    ELSE <<s[1] - 1, s[2] + 65536 - n>>

\* Decoder::sub_samples.
sub_samples(samples, n) ==
    IF samples = <<>> THEN samples ELSE <<SaturatingSub(samples[1], n)>>

\* Vec::resize_with(n, Default::default).
ResizeLms(lms, n) ==
    [i \in 1..n |-> IF i <= Len(lms) THEN lms[i] ELSE DefaultLms]

\* dec_lms over the channels lo..hi: a failed read ends it, the channels
\* before it already overwritten.
DecLmsAll(source, lms) ==
    LET RECURSIVE Chans(_, _, _)
        Chans(acc, lo, hi) ==
            IF acc.err # "" \/ lo > hi THEN acc
            ELSE IF lo = hi
                 THEN LET r == dec_lms(acc.source)
                      IN  IF r.err # ""
                          THEN [acc EXCEPT !.err = r.err, !.source = r.source]
                          ELSE [err |-> "", source |-> r.source,
                                lms |-> [acc.lms EXCEPT ![lo] = r.lms]]
            ELSE Chans(Chans(acc, lo, (lo + hi) \div 2), (lo + hi) \div 2 + 1, hi)
    IN  Chans([err |-> "", source |-> source, lms |-> lms], 1, Len(lms))

\* The sample loop of decode_frame for one slice: slice_width samples of
\* the channel whose state is lms.  It gives the state left, the samples put
\* into slice_buf, and for each of them what was computed.  si is the loop
\* variable; n iterations are n \div 2 of them followed by the rest.
DecSliceSamples(lms, slice, slice_width) ==
    LET Sample(acc) ==
            LET qr          == slice.resid[acc.si + 1]
                predicted   == predict(acc.lms)
                dequantized == DEQUANT_TABLE[slice.quant + 1][qr + 1]
                reconst     == ToI16(AddI32(predicted, dequantized))
            IN  [si    |-> acc.si + 1,
                 lms   |-> update(acc.lms, reconst, dequantized),
                 buf   |-> Append(acc.buf, reconst),
                 trace |-> Append(acc.trace,
                                  [predicted |-> predicted, dequantized |-> dequantized,
                                   reconst |-> reconst])]
        RECURSIVE Loop(_, _)
        Loop(acc, n) ==
            IF acc.si >= slice_width \/ n = 0 THEN acc
            ELSE IF n = 1 THEN Sample(acc)
            ELSE Loop(Loop(acc, n \div 2), n - n \div 2)
    IN  Loop([si |-> 0, lms |-> lms, buf |-> <<>>, trace |-> <<>>], slice_width)

\* The slice loops of decode_frame: step k (from 0) is channel k % channels
\* of slice row k \div channels.  A failed dec_slice ends them.
DecSlices(source, lms, sink, channels, f_samples) ==
    LET rows == (f_samples + SLICE_LEN - 1) \div SLICE_LEN
        Slice(acc, k) ==
            LET chn   == k % channels
                width == Min(SLICE_LEN, f_samples - (k \div channels) * SLICE_LEN)
                r     == read_long(acc.source)
            IN  IF r.err # "" THEN [acc EXCEPT !.err = r.err]
                ELSE LET d == DecSliceSamples(acc.lms[chn + 1], unpack(r.v), width)
                     IN  [err    |-> "",
                          source |-> r.source,
                          lms    |-> [acc.lms EXCEPT ![chn + 1] = d.lms],
                          sink   |-> [acc.sink EXCEPT
                                         !.writes = Append(@, [chn |-> chn, buf |-> d.buf])],
                          trace  |-> acc.trace \o d.trace]
        RECURSIVE Slices(_, _, _)
        Slices(acc, lo, hi) ==
            IF acc.err # "" \/ lo > hi THEN acc
            ELSE IF lo = hi THEN Slice(acc, lo)
            ELSE Slices(Slices(acc, lo, (lo + hi) \div 2), (lo + hi) \div 2 + 1, hi)
    IN  Slices([err |-> "", source |-> source, lms |-> lms, sink |-> sink,
                trace |-> <<>>], 0, rows * channels - 1)

\* What a decode_frame call leaves and returns.  hdr is what
\* dec_file_header gave when the call made it, trace what the sample loop
\* computed.
Left(dec, source, sink, hdr, trace, ret) ==
    [dec |-> dec, source |-> source, sink |-> sink, hdr |-> hdr, trace |-> trace,
     ret |-> ret]
RetOk(value) == [status |-> "ok", value |-> value]
RetErr(err) == [status |-> "err", err |-> err]

\* Decoder::decode_frame from the slice loops on: f is what they left.
decode_frame_slices(dec, hdr, samples, f) ==
    IF f.err # ""
    THEN Left([dec EXCEPT !.lms = f.lms], f.source, f.sink, hdr, f.trace, RetErr(f.err))
    ELSE Left([dec EXCEPT !.lms = f.lms, !.samples = sub_samples(@, samples)],
              f.source, f.sink, hdr, f.trace, RetOk(TRUE))

\* Decoder::decode_frame from dec_lms on: h is the frame header read, l what
\* dec_lms left of the resized states.
decode_frame_lms(dec, sink, hdr, h, l) ==
    IF l.err # ""
    THEN Left([dec EXCEPT !.lms = l.lms], l.source, sink, hdr, <<>>, RetErr(l.err))
    ELSE decode_frame_slices(
             dec, hdr, h.samples,
             DecSlices(l.source, l.lms,
                       [sink EXCEPT !.descriptor =
                                        <<[rate |-> h.rate, channels |-> h.channels]>>],
                       h.channels, h.samples))

\* A frame header read for which the end of the source is an error in
\* either mode.
decode_frame_header_read_strict(dec, sink, hdr, streaming_mode, h) ==
    IF h.err # ""
    THEN Left(dec, h.source, sink, hdr, <<>>, RetErr(h.err))
    ELSE decode_frame_lms(dec, sink, hdr, h,
                          DecLmsAll(h.source, ResizeLms(dec.lms, h.channels)))

\* Decoder::decode_frame from the frame header on: h is what
\* dec_frame_header gave.
decode_frame_header_read(dec, sink, hdr, streaming_mode, h) ==
    IF h.err # ""
    THEN Left(dec, h.source, sink, hdr, <<>>,
              IF streaming_mode /\ h.err = "Eof" THEN RetOk(FALSE) ELSE RetErr(h.err))
    ELSE decode_frame_lms(dec, sink, hdr, h,
                          DecLmsAll(h.source, ResizeLms(dec.lms, h.channels)))

\* Decoder::decode_frame once the sample count and the mode are known.
decode_frame_counted(dec, source, sink, hdr, streaming_mode, samples) ==
    IF samples = <<0, 0>> /\ ~streaming_mode
    THEN Left(dec, source, sink, hdr, <<>>, RetOk(FALSE))
    ELSE decode_frame_header_read(dec, sink, hdr, streaming_mode,
                                  dec_frame_header(source))

\* Decoder::decode_frame when the file header is due: fh is what
\* dec_file_header gave.
decode_frame_first(dec, sink, fh) ==
    IF fh.err = "UnknownMagic"
    THEN Left([dec EXCEPT !.header = FALSE], fh.source, sink,
              <<[err |-> fh.err, bytes |-> fh.bytes]>>, <<>>, RetErr(fh.err))
    ELSE IF fh.err # ""
    THEN Left([dec EXCEPT !.header = FALSE], fh.source, sink,
              <<[err |-> fh.err]>>, <<>>, RetErr(fh.err))
    ELSE decode_frame_counted(
             [dec EXCEPT !.header = FALSE,
                         !.samples = IF fh.v = <<0, 0>> THEN @ ELSE <<fh.v>>],
             fh.source, sink, <<[err |-> "", v |-> fh.v]>>, fh.v = <<0, 0>>, fh.v)

\* Decoder::decode_frame: the decoder, source and sink it leaves and what
\* it returns.
decode_frame(dec, source, sink) ==
    IF dec.header
    THEN decode_frame_first(dec, sink, dec_file_header(source))
    ELSE decode_frame_counted(dec, source, sink, <<>>, dec.samples = <<>>,
                              IF dec.samples = <<>> THEN <<0, 0>> ELSE dec.samples[1])

(***************************************************************************)
(* The scalers' inputs.                                                    *)
(***************************************************************************)
\* The interleaved sample patterns a window repeats.
SamplePatterns ==
    { <<-32768>>, <<0>>, <<15536>>, <<32767>>, <<100, -20000, 32767>> }

LmsInputs ==
    { DefaultLms,
      [history |-> <<0, 0, 0, -25000>>, weights |-> <<0, 0, 0, 16384>>],
      [history |-> <<-3, 120, -32768, 32767>>, weights |-> <<32767, -700, 9000, -32768>>] }

\* The window of n interleaved samples that repeats the pattern pre.
Periodic(pre, n) == [i \in 1..n |-> pre[((i - 1) % Len(pre)) + 1]]

\* Samples per channel of a window: a short last slice, or a full slice.
WindowLens == (1..MaxShort) \cup {SLICE_LEN}

NotRun == [status |-> "none"]

\* The parts of the state a specification leaves alone.
ScaleIdle ==
    /\ sc_samples = <<>> /\ sc_channels = 0 /\ sc_chn = 0
    /\ sc_lms0 = DefaultLms /\ lin = NotRun /\ vec = NotRun
WireIdle == wire_in = [kind |-> "none"] /\ wire_bytes = <<>> /\ wire_out = NotRun
DecIdle ==
    /\ dc_file = <<>> /\ dc_source = <<>> /\ dc_dec = [status |-> "none"]
    /\ dc_sink = [status |-> "none"] /\ dc_ret = NotRun
DivIdle == dv_v = 0 /\ dv_sf = 0 /\ dv_scalar = NotRun /\ dv_vector = NotRun
LmsIdle == lm_in = NotRun /\ lm_pred = NotRun /\ lm_upd = NotRun
EncIdle == en_enc = NotRun /\ en_ret = NotRun /\ en_log = NotRun /\ en_out = NotRun
ByteIdle == bd_file = <<>> /\ bd_dec = NotRun /\ bd_sink = <<>> /\ bd_ret = NotRun
PcmIdle == pcm_buf = NotRun /\ pcm_sink = NotRun /\ pcm_read = NotRun /\ pcm_log = NotRun
QoaIdle == qe_enc = NotRun /\ qe_log = NotRun /\ qe_sink = <<>> /\ qe_ret = NotRun
WgtIdle == wg_lms = NotRun /\ wg_log = NotRun
DrvIdle == drv = NotRun /\ rep = NotRun
LateIdle == PcmIdle /\ QoaIdle /\ WgtIdle /\ DrvIdle
MoreIdle == LmsIdle /\ EncIdle /\ ByteIdle /\ LateIdle
OldIdle == ScaleIdle /\ WireIdle /\ DecIdle /\ DivIdle /\ LateIdle
oldVars == <<scVars, wireVars, dcVars, dvVars, lateVars>>
firstVars == <<scVars, wireVars, dcVars, dvVars, lmVars, enVars, bdVars>>
FirstIdle == ScaleIdle /\ WireIdle /\ DecIdle /\ DivIdle /\ LmsIdle /\ EncIdle /\ ByteIdle

InitScale ==
    /\ sc_channels \in 1..MaxChannels
    /\ sc_chn \in 0..(MaxChannels - 1)
    /\ sc_chn < sc_channels
    /\ \E pre \in SamplePatterns, l \in WindowLens :
           sc_samples = Periodic(pre, l * sc_channels)
    /\ sc_lms0 \in LmsInputs
    /\ lin = NotRun
    /\ vec = NotRun
    /\ WireIdle /\ DecIdle /\ DivIdle /\ MoreIdle

\* A call of LinearScaler::scale(samples, &mut lms, chn, channel_count).
LinearScalerScale ==
    /\ lin.status = "none"
    /\ lin' = LinearScale(sc_samples, sc_lms0, sc_chn, sc_channels)
    /\ UNCHANGED <<sc_samples, sc_channels, sc_chn, sc_lms0, vec>>
    /\ UNCHANGED <<wireVars, dcVars, dvVars, moreVars>>

\* A call of VectorScaler::scale(samples, &mut lms, chn, channel_count).
VectorScalerScale ==
    /\ vec.status = "none"
    /\ vec' = VectorScale(sc_samples, sc_lms0, sc_chn, sc_channels)
    /\ UNCHANGED <<sc_samples, sc_channels, sc_chn, sc_lms0, lin>>
    /\ UNCHANGED <<wireVars, dcVars, dvVars, moreVars>>

NextScale == LinearScalerScale \/ VectorScalerScale

SpecScale == InitScale /\ [][NextScale]_vars

(***************************************************************************)
(* Properties of the slice scalers.                                        *)
(***************************************************************************)
\* Samples per channel of the window handed to the scalers.
PerChannel == Len(sc_samples) \div sc_channels

\* The bits of w below bit n are zero.
LowBitsZero(w, n) == Shl(Shr(w, n), n) = w

\* Candidate b of cs has the least error, and every candidate before it has
\* a greater one.
FirstMinimum(cs, b) ==
    /\ \A i \in 1..Len(cs) : ~LessBig(cs[i].error, cs[b].error)
    /\ \A i \in 1..(b - 1) : LessBig(cs[b].error, cs[i].error)

\* C1: whenever LinearScaler::scale returns, the word it returns is the packed
\* word of the candidate with the smallest cumulative squared error, the
\* lowest scale factor winning ties, every candidate having started from a
\* copy of the caller's state (its scale factor heads its word), and the
\* caller's LMS state is that candidate's.
C1_LinearSelectsFirstMinimum ==
    lin.status = "ok" =>
        /\ Len(lin.cands) = 16
        /\ \A i \in 1..16 :
               Shr(lin.cands[i].slice, 3 * lin.len) = U64(i - 1)
        /\ \E b \in 1..16 :
               /\ FirstMinimum(lin.cands, b)
               /\ lin.word = Shl(lin.cands[b].slice, (SLICE_LEN - lin.len) * 3)
               /\ lin.lms = lin.cands[b].lms

\* C1's case: a full window on which several candidates tie for the least
\* error, and the call returned the one of scale factor 0, whose word and
\* state differ from those of a later candidate of the same error.
C1_Witness ==
    /\ lin.status = "ok"
    /\ lin.len = SLICE_LEN
    /\ FirstMinimum(lin.cands, 1)
    /\ lin.lms = lin.cands[1].lms
    /\ \E i \in 2..16 :
           /\ lin.cands[i].error = lin.cands[1].error
           /\ lin.cands[i].slice # lin.cands[1].slice

\* C2: for every window of at most 20 samples per channel, channel index,
\* channel count and starting LMS state, VectorScaler::scale returns the same
\* word and leaves the same LMS state as LinearScaler::scale.
C2_VectorEqualsLinear ==
    (lin.status # "none" /\ vec.status # "none") =>
        /\ vec.status = lin.status
        /\ vec.lms = lin.lms
        /\ lin.status = "ok" => vec.word = lin.word

\* C3: on a window of len < 20 samples per channel, for any channel count,
\* LinearScaler::scale reads the len samples of channel chn and returns the
\* packed word shifted left by (20 - len) * 3: the scale factor in bits
\* 63..60 and the low (20 - len) * 3 bits zero.
C3_ShortWindowShifted ==
    (lin.status # "none" /\ PerChannel < SLICE_LEN) =>
        /\ lin.status = "ok"
        /\ lin.len = PerChannel
        /\ \E b \in 1..16 :
               /\ lin.lms = lin.cands[b].lms
               /\ Shr(lin.word, 60) = U64(b - 1)
        /\ LowBitsZero(lin.word, (SLICE_LEN - PerChannel) * 3)

(***************************************************************************)
(* The wire functions applied to drawn inputs.                             *)
(***************************************************************************)
\* SLICE and PACKED of test/data.rs.
TestSlice ==
    [quant |-> 9,
     data  |-> <<1, 2, 3, 4, 5, 6, 7, 6, 5, 4, 3, 2, 1, 2, 3, 4, 5, 6, 7, 6>>]
TestPacked == <<146, 156, 187, 235, 26, 41, 203, 190>>

\* The slice whose residuals are all bg but for residual r at position p.
SliceWith(quant, bg, p, r) ==
    [quant |-> quant, data |-> [i \in 1..20 |-> IF i = p THEN r ELSE bg]]

SliceInputs ==
    {TestSlice} \cup
    {SliceWith(q, bg, p, r) : q \in 0..15, bg \in {0, 7}, p \in 1..20, r \in {2, 5}}

LaneInputs ==
    { <<0, 0, 0, 0>>, <<0, 0, -8192, 16384>>, <<-32768, 32767, -1, 1>>,
      <<255, 256, -256, -255>>, <<-3, 120, -32768, 32767>>,
      <<12345, -12345, 4660, -4660>> }

LmsWireInputs == {[history |-> h, weights |-> w] : h \in LaneInputs, w \in LaneInputs}

FrameInputs ==
    {[channels |-> c, rate |-> r, samples |-> n, slices |-> k] :
        c \in {1, 2, 255}, r \in {1, 44100, 16777215},
        n \in {1, 5120, 65535}, k \in {1, 256}}

InitWire ==
    /\ wire_in \in {[kind |-> "slice", slice |-> x] : x \in SliceInputs}
                  \cup {[kind |-> "lms", lms |-> x] : x \in LmsWireInputs}
                  \cup {[kind |-> "frame", header |-> x] : x \in FrameInputs}
    /\ wire_bytes = <<>>
    /\ wire_out = NotRun
    /\ ScaleIdle /\ DecIdle /\ DivIdle /\ MoreIdle

\* QoaSlice::pack, the word written big-endian.
PackSlice ==
    /\ wire_in.kind = "slice" /\ wire_bytes = <<>>
    /\ wire_bytes' = BytesU64(pack(wire_in.slice))
    /\ UNCHANGED <<wire_in, wire_out, scVars, dcVars, dvVars, moreVars>>

\* QoaSlice::unpack, of lib.rs on the bytes and of decoder.rs on the word
\* dec_slice reads.
UnpackSlice ==
    /\ wire_in.kind = "slice" /\ wire_bytes # <<>> /\ wire_out = NotRun
    /\ wire_out' = [status |-> "ok",
                    lib    |-> unpack_bytes(wire_bytes),
                    dec    |-> unpack(read_long(wire_bytes).v)]
    /\ UNCHANGED <<wire_in, wire_bytes, scVars, dcVars, dvVars, moreVars>>

EncLmsState ==
    /\ wire_in.kind = "lms" /\ wire_bytes = <<>>
    /\ wire_bytes' = enc_lms_state(wire_in.lms)
    /\ UNCHANGED <<wire_in, wire_out, scVars, dcVars, dvVars, moreVars>>

\* dec_lms, and LmsState::unpack on the two words read_longs returns.
DecLms ==
    /\ wire_in.kind = "lms" /\ wire_bytes # <<>> /\ wire_out = NotRun
    /\ wire_out' = [status |-> "ok",
                    dec    |-> dec_lms(wire_bytes),
                    bytes  |-> LmsState_unpack(FromBeBytes(SubSeq(wire_bytes, 1, 8)),
                                               FromBeBytes(SubSeq(wire_bytes, 9, 16)))]
    /\ UNCHANGED <<wire_in, wire_bytes, scVars, dcVars, dvVars, moreVars>>

EncFrameHeader ==
    /\ wire_in.kind = "frame" /\ wire_bytes = <<>>
    /\ wire_bytes' = enc_frame_header(wire_in.header.channels, wire_in.header.rate,
                                      wire_in.header.samples, wire_in.header.slices)
    /\ UNCHANGED <<wire_in, wire_out, scVars, dcVars, dvVars, moreVars>>

\* dec_frame_header, and decode_frame_header of the byte-slice decoder.
DecFrameHeader ==
    /\ wire_in.kind = "frame" /\ wire_bytes # <<>> /\ wire_out = NotRun
    /\ wire_out' = [status |-> "ok",
                    dec    |-> dec_frame_header(wire_bytes),
                    bytes  |-> decode_frame_header(wire_bytes)]
    /\ UNCHANGED <<wire_in, wire_bytes, scVars, dcVars, dvVars, moreVars>>

NextWire ==
    \/ PackSlice \/ UnpackSlice
    \/ EncLmsState \/ DecLms
    \/ EncFrameHeader \/ DecFrameHeader

SpecWire == InitWire /\ [][NextWire]_vars

(***************************************************************************)
(* The streaming decoder run over drawn files.                             *)
(***************************************************************************)
\* Sample counts a file header declares: streaming, small, and beyond 2^31.
CountInputs == { <<0, 0>>, <<0, 1>>, <<0, 3>>, <<32768, 0>>, <<65535, 65535>> }

\* First words that are not a file header: eight zero bytes, the magic one
\* bit off, and the magic in the lower half only.
BadHeaders ==
    { <<0, 0, 0, 0, 0, 0, 0, 0>>,
      BytesU32(<<29039, 24935>>) \o BytesU32(<<0, 3>>),
      BytesU32(<<0, 3>>) \o BytesU32(MAGIC) }

\* LMS states a frame carries: the default one, and two whose prediction
\* added to a residual leaves the 16-bit range.
DecLmsInputs ==
    { DefaultLms,
      [history |-> <<0, 0, 0, 32767>>, weights |-> <<0, 0, 0, 16384>>],
      [history |-> <<0, 0, 0, -32768>>, weights |-> <<0, 0, 0, 16384>>] }

DecSliceInputs == { SliceWith(0, 0, 2, 1), SliceWith(15, 6, 1, 7), TestSlice }

\* The bytes of a frame of the given shape, every channel with the same LMS
\* state and every slice word the same.
RECURSIVE Repeat(_, _)
Repeat(bytes, n) == IF n = 0 THEN <<>> ELSE bytes \o Repeat(bytes, n - 1)

FrameBytes(channels, samples, lms, slice) ==
    LET rows == (samples + SLICE_LEN - 1) \div SLICE_LEN
    IN  enc_frame_header(channels, 44100, samples, rows)
        \o Repeat(enc_lms_state(lms), channels)
        \o Repeat(BytesU64(pack(slice)), rows * channels)

FrameInputsDec ==
    {FrameBytes(c, n, l, sl) : c \in 1..MaxChannels, n \in 1..MaxFrameSamples,
                               l \in DecLmsInputs, sl \in DecSliceInputs}

InitDec ==
    /\ \E h \in {enc_file_header(n) : n \in CountInputs} \cup BadHeaders,
          f \in FrameInputsDec, k \in 0..MaxFrames :
           dc_file = h \o Repeat(f, k)
    /\ dc_source = dc_file
    /\ dc_dec = NewDecoder
    /\ dc_sink = NewSink
    /\ dc_ret = NotRun
    /\ ScaleIdle /\ WireIdle /\ DivIdle /\ MoreIdle

\* One call of Decoder::decode_frame by the loop of Decoder::decode, which
\* goes on while the calls return Ok(true).
DecodeFrame ==
    /\ dc_ret.status = "none" \/ (dc_ret.status = "ok" /\ dc_ret.value)
    /\ LET r == decode_frame(dc_dec, dc_source, dc_sink)
       IN  /\ dc_dec' = r.dec
           /\ dc_source' = r.source
           /\ dc_sink' = r.sink
           /\ dc_ret' = [r.ret EXCEPT !.status = @] @@ [hdr |-> r.hdr, trace |-> r.trace]
    /\ UNCHANGED <<dc_file, scVars, wireVars, dvVars, moreVars>>

NextDec == DecodeFrame

SpecDec == InitDec /\ [][NextDec]_vars

(***************************************************************************)
(* The rounding divides applied to drawn values.                           *)
(***************************************************************************)
\* Values of the i32 range: its ends, the ends of the i16 range and their
\* neighbours, and the least magnitudes whose product with 2^16 leaves i32.
DivInputs ==
    { -2147483647 - 1, -65536, -32769, -32768, -255, -1, 0, 1, 7, 255,
      32767, 32768, 65535, 65536, 2147483647 }

\* v * recip or v * recip + (1 << 15) leaves the i32 range: with overflow
\* checks the scalar div panics there, without them it wraps.
DivOverflows(v, sf) ==
    LET recip == RECIP_TABLE[sf + 1]
        p == Hi16(v) * recip + ((Lo16(v) \div 256) * recip + ((Lo16(v) % 256) * recip) \div 256) \div 256
        n == MulAddShr64(v, recip)
    IN  p < -32768 \/ p > 32767 \/ n < -32768 \/ n > 32767

InitDiv ==
    /\ dv_v \in DivInputs
    /\ dv_sf \in 0..15
    /\ dv_scalar = NotRun
    /\ dv_vector = NotRun
    /\ ScaleIdle /\ WireIdle /\ DecIdle /\ MoreIdle

\* A call of the scalar div(v, sf), in a build with or without overflow
\* checks.
ScalarDiv ==
    /\ dv_scalar.status = "none"
    /\ \E overflow_checks \in BOOLEAN :
           dv_scalar' = IF overflow_checks /\ DivOverflows(dv_v, dv_sf)
                        THEN [status |-> "panic"]
                        ELSE [status |-> "ok", value |-> div(dv_v, dv_sf)]
    /\ UNCHANGED <<dv_v, dv_sf, dv_vector>>
    /\ UNCHANGED <<scVars, wireVars, dcVars, moreVars>>

\* A call of the vector div on a vector whose lane sf holds v.
VectorDiv ==
    /\ dv_vector.status = "none"
    /\ dv_vector' = [status |-> "ok", value |-> vec_div(dv_v, dv_sf)]
    /\ UNCHANGED <<dv_v, dv_sf, dv_scalar>>
    /\ UNCHANGED <<scVars, wireVars, dcVars, moreVars>>

NextDiv == ScalarDiv \/ VectorDiv

SpecDiv == InitDiv /\ [][NextDiv]_vars

(***************************************************************************)
(* The stream descriptor: a triple of optional sample count per channel,   *)
(* sample rate and channel count.  An option is <<>> or <<x>>.             *)
(***************************************************************************)
FRAME_LEN == 5120

\* usize::saturating_sub.
saturating_sub(a, b) == IF a >= b THEN a - b ELSE 0

unwrap_or_default(o) == IF o = <<>> THEN 0 ELSE o[1]

StreamDescriptor_default ==
    [sample_count |-> <<>>, sample_rate |-> <<>>, channel_count |-> <<>>]

\* StreamDescriptor::new: a present rate lies in [1, 2^24), a present
\* sample count is at least 1, a present channel count lies in [1, 255].
StreamDescriptor_new(sample_count, sample_rate, channel_count) ==
    IF \/ (sample_rate # <<>> /\ (sample_rate[1] < 1 \/ sample_rate[1] >= 16777216))
       \/ (sample_count # <<>> /\ sample_count[1] < 1)
       \/ (channel_count # <<>> /\ (channel_count[1] < 1 \/ channel_count[1] > 255))
    THEN [err |-> "InvalidDescriptor"]
    ELSE [err |-> "",
          desc |-> [sample_count |-> sample_count, sample_rate |-> sample_rate,
                    channel_count |-> channel_count]]

\* Streaming mode is the absence of a sample count.
is_streaming(desc) == desc.sample_count = <<>>

\* infer: what desc does not say is taken from the encoder's descriptor.
infer(desc, this_desc) ==
    [sample_count  |-> IF desc.sample_count = <<>> THEN this_desc.sample_count
                       ELSE desc.sample_count,
     sample_rate   |-> IF desc.sample_rate = <<>> THEN this_desc.sample_rate
                       ELSE desc.sample_rate,
     channel_count |-> IF desc.channel_count = <<>> THEN this_desc.channel_count
                       ELSE desc.channel_count]

\* infer_from_vec: as infer; a sample count still absent is the number of
\* samples per channel the vector holds.
infer_from_vec(desc, source, this_desc) ==
    [sample_count  |-> IF desc.sample_count # <<>> THEN desc.sample_count
                       ELSE IF this_desc.sample_count # <<>> THEN this_desc.sample_count
                       ELSE IF infer(desc, this_desc).channel_count = <<>> THEN <<>>
                       ELSE <<Len(source) \div infer(desc, this_desc).channel_count[1]>>,
     sample_rate   |-> infer(desc, this_desc).sample_rate,
     channel_count |-> infer(desc, this_desc).channel_count]

\* unwrap_all: the three values, 0 for an absent one.  The samples of the
\* model are interleaved.
unwrap_all(desc) ==
    [samples  |-> unwrap_or_default(desc.sample_count),
     rate     |-> unwrap_or_default(desc.sample_rate),
     channels |-> unwrap_or_default(desc.channel_count),
     interleaved |-> TRUE]

(***************************************************************************)
(* The encoder's frame state.                                              *)
(***************************************************************************)
Frame_new(channel_count) ==
    [slice_width |-> SLICE_LEN * channel_count, slice_count |-> 0,
     slice_index |-> 0, buffer |-> <<>>]

\* Frame::complete: all slices have been written.
Frame_complete(frame) == frame.slice_index >= frame.slice_count

\* Frame::start: a complete frame is set up for min(FRAME_LEN, samples)
\* samples; the flag is what start returns.
Frame_start(frame, samples, channels) ==
    IF Frame_complete(frame)
    THEN [started |-> TRUE,
          frame   |-> [slice_width |-> SLICE_LEN * channels,
                       slice_count |->
                           ((Min(FRAME_LEN, samples) + SLICE_LEN - 1) \div SLICE_LEN) % 65536,
                       slice_index |-> 0,
                       buffer      |-> frame.buffer]]
    ELSE [started |-> FALSE, frame |-> frame]

Frame_reset(frame) == [frame EXCEPT !.slice_count = 0, !.slice_index = 0]


(***************************************************************************)
(* The encoder's slice function.  The sink is the sequence of the writes   *)
(* made to it, each with the WriteKind of its error path.                  *)
(***************************************************************************)
\* best_error before a candidate has won: -1 on i64, as an error sum.
MinusOne == <<-1, 65535>>

\* The rest of the loop body of enc_slice once cur_err is err: the break,
\* or the update of cur_lms and the residual appended to the slice.
EncSliceStepped(acc, r, err, best_error) ==
    IF LessBig(best_error, err)
    THEN [status |-> "break", lms |-> acc.lms, slice |-> acc.slice, err |-> err]
    ELSE [status |-> "ok", lms |-> r.lms,
          slice |-> Or(Shl(acc.slice, 3), U64(r.quantized)), err |-> err]

\* cur_err += error * error, for the sample read and what was computed of it.
EncSliceSampled(acc, sample, r, best_error) ==
    EncSliceStepped(acc, r, AddBig(acc.err, SqBig(sample - r.reconst)), best_error)

\* The loop body of enc_slice at index si (0-based) for scale factor sf.
\* Indexing samples out of bounds panics.
EncSliceStep(acc, sf, samples, si, best_error) ==
    IF si + 1 > Len(samples) THEN [status |-> "panic"]
    ELSE EncSliceSampled(acc, samples[si + 1],
                         scale_sample(samples[si + 1], sf, acc.lms), best_error)

\* The inner loop of enc_slice for scale factor sf over the n indices
\* 0, channel_count, 2 * channel_count, ... of rng.step_by(channel_count).
EncSliceCand(sf, lms, samples, channel_count, n, best_error) ==
    LET RECURSIVE Fold(_, _, _)
        Fold(acc, lo, hi) ==
            CASE acc.status # "ok" -> acc
              [] lo = hi -> EncSliceStep(acc, sf, samples, (lo - 1) * channel_count,
                                         best_error)
              [] OTHER -> Fold(Fold(acc, lo, (lo + hi) \div 2), (lo + hi) \div 2 + 1, hi)
    IN  IF n < 1 THEN [status |-> "ok", lms |-> lms, slice |-> U64(sf), err |-> <<0, 0>>]
        ELSE Fold([status |-> "ok", lms |-> lms, slice |-> U64(sf), err |-> <<0, 0>>], 1, n)

\* if cur_err < best_error: the candidate replaces the best.
EncSliceBetter(best, cand) ==
    IF cand.status = "panic" THEN [status |-> "panic"]
    ELSE IF LessBig(cand.err, best.error)
    THEN [status |-> "ok", error |-> cand.err, slice |-> cand.slice, lms |-> cand.lms]
    ELSE best

\* The loop of enc_slice over the scale factors 0..15 for one channel.
EncSliceBest(lms, samples, channel_count, n) ==
    LET RECURSIVE Best(_, _, _)
        Best(best, lo, hi) ==
            CASE best.status = "panic" -> best
              [] lo = hi -> EncSliceBetter(best, EncSliceCand(lo, lms, samples, channel_count,
                                                              n, best.error))
              [] OTHER -> Best(Best(best, lo, (lo + hi) \div 2), (lo + hi) \div 2 + 1, hi)
    IN  Best([status |-> "ok", error |-> MinusOne, slice |-> U64(0), lms |-> DefaultLms],
             0, 15)

\* The end of the channel loop body: lms[chn] = best_lms, the slice shifted
\* by the residuals a short slice lacks, and the write.
EncSliceWrite(out, chn, len, best) ==
    IF best.status = "panic" THEN [status |-> "panic", sink |-> out.sink, lms |-> out.lms]
    ELSE [status |-> "ok",
          sink   |-> Append(out.sink,
                            [kind |-> "slice", chn |-> chn,
                             bytes |-> BytesU64(Shl(best.slice, (SLICE_LEN - len) * 3))]),
          lms    |-> [out.lms EXCEPT ![chn + 1] = best.lms]]

\* The channel loop body of enc_slice for channel chn: len is
\* SLICE_LEN.clamp(0, samples.len()) and rng is 0..len * channel_count + chn.
EncSliceChannel(out, samples, channel_count, chn, len) ==
    IF out.status = "panic" THEN out
    ELSE IF chn + 1 > Len(out.lms) THEN [status |-> "panic", sink |-> out.sink, lms |-> out.lms]
    ELSE EncSliceWrite(out, chn, len,
                       EncSliceBest(out.lms[chn + 1], samples, channel_count,
                                    (len * channel_count + chn + channel_count - 1)
                                        \div channel_count))

\* enc_slice: the writes appended to the sink and the LMS states left.
enc_slice(sink, samples, channel_count, lms) ==
    LET RECURSIVE Channels(_, _)
        Channels(out, chn) ==
            IF chn >= channel_count THEN out
            ELSE Channels(EncSliceChannel(out, samples, channel_count, chn,
                                          Min(SLICE_LEN, Len(samples))), chn + 1)
    IN  Channels([status |-> "ok", sink |-> sink, lms |-> lms], 0)


(***************************************************************************)
(* The encoder's frame function.                                           *)
(***************************************************************************)
\* The writes of enc_frame_header and of enc_lms_state for every channel.
\* The writes of one call are one entry of the sink.
FrameHeaderWrite(channels, rate, sample_cnt, slice_count) ==
    [kind |-> "frame_header", chn |-> 0,
     bytes |-> enc_frame_header(channels, rate, sample_cnt % 65536, slice_count)]
LmsWrites(lms) ==
    [i \in 1..Len(lms) |-> [kind |-> "lms", chn |-> i - 1, bytes |-> enc_lms_state(lms[i])]]

\* What one enc_slice call on samples leaves of the state acc of enc_frame:
\* the slice index and the samples consumed advance.  fed is the list of
\* the sample blocks handed to enc_slice so far.
EncFrameSliced(acc, samples, s, consumed, buffer) ==
    IF s.status = "panic" THEN [acc EXCEPT !.status = "panic"]
    ELSE [status |-> "ok", sink |-> s.sink, lms |-> s.lms,
          frame |-> [acc.frame EXCEPT !.slice_index = @ + 1, !.buffer = buffer],
          consumed |-> consumed, fed |-> Append(acc.fed, samples)]

\* The block of enc_frame that completes the partial buffer: taken when the
\* buffer holds samples or the input is at most one slice wide.
EncFrameBuffered(acc, sample_buf, channels, len, off) ==
    IF acc.frame.buffer # <<>> \/ len <= acc.frame.slice_width
    THEN IF Len(acc.frame.buffer) + off <= acc.frame.slice_width
         THEN EncFrameSliced(acc, acc.frame.buffer \o SubSeq(sample_buf, 1, off),
                             enc_slice(acc.sink, acc.frame.buffer \o SubSeq(sample_buf, 1, off),
                                       channels, acc.lms),
                             SLICE_LEN, <<>>)
         ELSE [acc EXCEPT !.frame.buffer = @ \o SubSeq(sample_buf, 1, off),
                          !.consumed = SLICE_LEN]
    ELSE acc

\* off as that block leaves it.
EncFrameOff(frame, len) ==
    IF frame.buffer # <<>> \/ len <= frame.slice_width
    THEN Min(saturating_sub(frame.slice_width, Len(frame.buffer)), len)
    ELSE 0

\* The loop body of enc_frame for chunk i (from 1) of sample_buf[off..len].
EncFrameChunk(acc, sample_buf, channels, off, i) ==
    IF Frame_complete(acc.frame) THEN [acc EXCEPT !.status = "break"]
    ELSE EncFrameSliced(acc,
                        SubSeq(sample_buf,
                               off + (i - 1) * acc.frame.slice_width + 1,
                               off + i * acc.frame.slice_width),
                        enc_slice(acc.sink,
                                  SubSeq(sample_buf,
                                         off + (i - 1) * acc.frame.slice_width + 1,
                                         off + i * acc.frame.slice_width),
                                  channels, acc.lms),
                        acc.consumed + SLICE_LEN, acc.frame.buffer)

\* The loop of enc_frame over the n whole chunks.
EncFrameChunks(acc0, sample_buf, channels, off, n) ==
    LET RECURSIVE Fold(_, _, _)
        Fold(acc, lo, hi) ==
            CASE acc.status # "ok" -> acc
              [] lo = hi -> EncFrameChunk(acc, sample_buf, channels, off, lo)
              [] OTHER -> Fold(Fold(acc, lo, (lo + hi) \div 2), (lo + hi) \div 2 + 1, hi)
    IN  IF n < 1 THEN acc0 ELSE Fold(acc0, 1, n)

\* The end of enc_frame: the remainder of chunks_exact joins the buffer, a
\* complete frame is reset, and consumed is returned.
EncFrameEnd(acc, excess) ==
    IF acc.status = "panic" THEN [status |-> "panic", n |-> 0, sink |-> acc.sink,
                                  lms |-> acc.lms, frame |-> acc.frame, fed |-> acc.fed]
    ELSE [status |-> "ok", n |-> acc.consumed, sink |-> acc.sink, lms |-> acc.lms,
          fed |-> acc.fed,
          frame |-> IF Frame_complete(acc.frame)
                    THEN Frame_reset([acc.frame EXCEPT !.buffer = @ \o excess])
                    ELSE [acc.frame EXCEPT !.buffer = @ \o excess]]

\* enc_frame after the partial-buffer block: the chunks of slice_width
\* samples of sample_buf[off..len], then the end.
EncFrameRest(acc, sample_buf, channels, len, off) ==
    EncFrameEnd(EncFrameChunks(acc, sample_buf, channels, off,
                               (len - off) \div acc.frame.slice_width),
                SubSeq(sample_buf,
                       off + ((len - off) \div acc.frame.slice_width)
                                 * acc.frame.slice_width + 1,
                       len))

\* enc_frame once len = min(len, slice_width * slice_count) is known.
EncFrameBody(acc, sample_buf, channels, len) ==
    EncFrameRest(EncFrameBuffered(acc, sample_buf, channels, len,
                                  EncFrameOff(acc.frame, len)),
                 sample_buf, channels, len, EncFrameOff(acc.frame, len))

\* enc_frame after frame.start: a started frame gets its header and the LMS
\* state of every channel.
EncFrameStarted(sink, sample_buf, sample_cnt, channels, rate, lms, st) ==
    EncFrameBody([status |-> "ok",
                  sink |-> IF st.started
                           THEN sink \o <<FrameHeaderWrite(channels, rate, sample_cnt,
                                                           st.frame.slice_count)>>
                                     \o LmsWrites(lms)
                           ELSE sink,
                  lms |-> lms, frame |-> st.frame, consumed |-> 0, fed |-> <<>>],
                 sample_buf, channels,
                 Min(Len(sample_buf), st.frame.slice_width * st.frame.slice_count))

\* enc_frame: the samples per channel it consumed, with the sink, the LMS
\* states and the frame as it leaves them.
enc_frame(sink, sample_buf, sample_cnt, channels, rate, lms, frame) ==
    IF sample_buf = <<>> /\ frame.buffer = <<>>
    THEN [status |-> "ok", n |-> 0, sink |-> sink, lms |-> lms, frame |-> frame,
          fed |-> <<>>]
    ELSE EncFrameStarted(sink, sample_buf, sample_cnt, channels, rate, lms,
                         Frame_start(frame, sample_cnt, channels))


(***************************************************************************)
(* The Encoder.  Its sink is an option: <<>> once close has taken it.      *)
(***************************************************************************)
\* Vec::resize(n, QoaLmsState::default()).
ResizeLmsStates(lms, n) ==
    [i \in 1..n |-> IF i <= Len(lms) THEN lms[i] ELSE DefaultLms]

\* Encoder::new_fixed.
new_fixed(sample_count, sample_rate, channel_count, sink) ==
    LET d == StreamDescriptor_new(<<sample_count>>, <<sample_rate>>, <<channel_count>>)
    IN  IF d.err # "" THEN [err |-> "InvalidDescriptor"]
        ELSE [err |-> "",
              enc |-> [desc |-> d.desc, sink |-> <<sink>>, has_header |-> FALSE,
                       lms_states |-> ResizeLmsStates(<<>>, channel_count),
                       frame |-> Frame_new(channel_count)]]

\* Encoder::new_streaming.
new_streaming(sink) ==
    [desc |-> StreamDescriptor_default, sink |-> <<sink>>, has_header |-> FALSE,
     lms_states |-> <<>>, frame |-> Frame_new(0)]

\* Encoder::set_sample_count: only a present sample count is set.
set_sample_count(enc, n) ==
    IF enc.desc.sample_count # <<>> THEN [enc EXCEPT !.desc.sample_count = <<n>>]
    ELSE enc

\* The file header block of encode_vec and encode: taken when has_header
\* is already true.
HeaderBlock(sink, has_header, this_desc) ==
    IF has_header
    THEN Append(sink, [kind |-> "file_header", chn |-> 0,
                       bytes |-> enc_file_header(
                                     <<unwrap_or_default(this_desc.sample_count) \div 65536,
                                       unwrap_or_default(this_desc.sample_count) % 65536>>)])
    ELSE sink

\* One turn of the while-let of encode_vec on what enc_frame returned: n
\* samples are cut from the end of source and taken from samples.
EncodeVecTurned(st, r, channels) ==
    IF r.status = "panic" THEN [st EXCEPT !.status = "panic"]
    ELSE [status  |-> IF r.n >= 1 THEN "ok" ELSE "done",
          sink    |-> r.sink, lms |-> r.lms, frame |-> r.frame, fed |-> st.fed \o r.fed,
          source  |-> IF r.n >= 1
                      THEN SubSeq(st.source, 1,
                                  saturating_sub(Len(st.source), r.n * channels))
                      ELSE st.source,
          samples |-> IF r.n >= 1 THEN saturating_sub(st.samples, r.n) ELSE st.samples]

\* The while-let of encode_vec: enc_frame is called until it returns 0.
RECURSIVE EncodeVecLoop(_, _, _)
EncodeVecLoop(st, channels, rate) ==
    IF st.status # "ok" THEN st
    ELSE EncodeVecLoop(EncodeVecTurned(st,
                                       enc_frame(st.sink, st.source, st.samples, channels,
                                                 rate, st.lms, st.frame),
                                       channels),
                       channels, rate)

\* encode_vec after the loop: the encoder as the call leaves it.
EncodeVecDone(enc, this_desc, st) ==
    IF st.status = "panic"
    THEN [ret |-> "panic", source |-> st.source, fed |-> st.fed,
          enc |-> [enc EXCEPT !.desc = this_desc, !.sink = <<st.sink>>,
                              !.lms_states = st.lms, !.frame = st.frame]]
    ELSE [ret |-> "Ok", source |-> st.source, fed |-> st.fed,
          enc |-> set_sample_count([enc EXCEPT !.desc = this_desc, !.sink = <<st.sink>>,
                                               !.lms_states = st.lms, !.frame = st.frame],
                                   st.samples)]

\* encode_vec from unwrap_all on: nothing to encode, a closed encoder, or
\* the frames.
EncodeVecUnwrapped(enc, source, this_desc, u) ==
    IF u.samples = 0 \/ u.rate = 0 \/ u.channels = 0
    THEN [ret |-> "Ok", source |-> source, fed |-> <<>>,
          enc |-> [enc EXCEPT !.desc = this_desc]]
    ELSE IF enc.sink = <<>>
    THEN [ret |-> "Closed", source |-> source, fed |-> <<>>,
          enc |-> [enc EXCEPT !.desc = this_desc]]
    ELSE EncodeVecDone(enc, this_desc,
                       EncodeVecLoop([status |-> "ok",
                                      sink |-> HeaderBlock(enc.sink[1], enc.has_header,
                                                           this_desc),
                                      lms |-> ResizeLmsStates(enc.lms_states, u.channels),
                                      frame |-> enc.frame,
                                      source |-> source, samples |-> u.samples,
                                      fed |-> <<>>],
                                     u.channels, u.rate))

\* The encoder's descriptor after the first block of encode_vec: a
\* streaming encoder's sample_rate becomes desc.sample_count and its
\* channel_count desc.channel_count.
ThisDesc(this_desc, desc) ==
    IF is_streaming(this_desc)
    THEN [this_desc EXCEPT !.sample_rate = desc.sample_count,
                           !.channel_count = desc.channel_count]
    ELSE this_desc

\* A descriptor check that compares the channel counts only.
DescriptorChanged_channels(this_desc, desc) ==
    desc.channel_count # this_desc.channel_count

\* The descriptor check of a fixed encoder in encode_vec and encode.
DescriptorChanged(this_desc, desc) ==
    \/ desc.sample_rate # this_desc.sample_rate
    \/ desc.channel_count # this_desc.channel_count

\* encode_vec once desc is inferred: a streaming encoder takes its rate and
\* channel count from desc, a fixed one checks them against its own.
EncodeVecInferred(enc, source, desc) ==
    IF ~is_streaming(enc.desc) /\ DescriptorChanged(enc.desc, desc)
    THEN [ret |-> "InvalidDescriptorChange", source |-> source, fed |-> <<>>, enc |-> enc]
    ELSE EncodeVecUnwrapped(enc, source, ThisDesc(enc.desc, desc), unwrap_all(desc))

\* Encoder::encode_vec: what it returns, the vector and the encoder it leaves.
encode_vec(enc, source, desc) ==
    EncodeVecInferred(enc, source, infer_from_vec(desc, source, enc.desc))

\* Encoder::flush.
flush(enc) == encode_vec(enc, <<>>, StreamDescriptor_default)

\* Encoder::close on what flush returned: None ("None") when flush found the
\* encoder closed or the sink is gone, the error of flush, or the sink.
Closed(enc, f) ==
    IF f.ret = "Closed" THEN [ret |-> "None", out |-> <<>>, enc |-> f.enc]
    ELSE IF f.ret # "Ok" THEN [ret |-> f.ret, out |-> <<>>, enc |-> f.enc]
    ELSE IF f.enc.sink = <<>> THEN [ret |-> "None", out |-> <<>>, enc |-> f.enc]
    ELSE [ret |-> "Some", out |-> f.enc.sink, enc |-> [f.enc EXCEPT !.sink = <<>>]]

\* Encoder::close.
close(enc) == Closed(enc, flush(enc))


(***************************************************************************)
(* Encoder::encode and the PCM source it reads: a descriptor and the       *)
(* interleaved samples not yet read.                                       *)
(***************************************************************************)
\* Pcm16Source::exhausted: no sample is left.
exhausted(source) == source.data = <<>>

\* Pcm16Source::read_interleaved into a buffer of buflen samples: as many
\* whole samples per channel as the buffer and the source allow; n is the
\* number of samples per channel delivered.
read_interleaved(source, buflen, channels) ==
    [n      |-> Min(buflen, Len(source.data)) \div channels,
     buf    |-> SubSeq(source.data, 1, (Min(buflen, Len(source.data)) \div channels) * channels),
     source |-> [source EXCEPT !.data =
                     SubSeq(@, (Min(buflen, Len(@)) \div channels) * channels + 1, Len(@))]]

\* The end of one turn of the loop of encode, on what enc_frame returned.
EncodeFramed(st, source, r) ==
    IF r.status = "panic" THEN [st EXCEPT !.status = "panic"]
    ELSE [status  |-> IF r.n = 0 THEN "done" ELSE "ok",
          sink    |-> r.sink, lms |-> r.lms, frame |-> r.frame, source |-> source,
          fed     |-> st.fed \o r.fed,
          samples |-> saturating_sub(st.samples, r.n)]

\* One turn of the loop of encode from the read on: the buffer, resized to
\* slice_width with zeros, holds what was read from off on and is then
\* truncated to the n the read returned.
EncodeRead(st, channels, rate, off, rd) ==
    EncodeFramed(st, rd.source,
                 enc_frame(st.sink, <<>>, st.samples, channels, rate, st.lms,
                           [st.frame EXCEPT !.buffer =
                                SubSeq(SubSeq(@, 1, off) \o rd.buf, 1,
                                       Min(rd.n, off + Len(rd.buf)))]))

\* One turn of the loop of encode.  The range off..slice_width of the
\* buffer panics when off is beyond slice_width.
EncodeTurn(st, channels, rate) ==
    IF Len(st.frame.buffer) > st.frame.slice_width THEN [st EXCEPT !.status = "panic"]
    ELSE EncodeRead(st, channels, rate, Len(st.frame.buffer),
                    read_interleaved(st.source,
                                     st.frame.slice_width - Len(st.frame.buffer),
                                     channels))

\* The loop of encode: while the source is not exhausted, until enc_frame
\* returns 0.
RECURSIVE EncodeLoop(_, _, _)
EncodeLoop(st, channels, rate) ==
    IF st.status # "ok" \/ exhausted(st.source) THEN st
    ELSE EncodeLoop(EncodeTurn(st, channels, rate), channels, rate)

\* encode from unwrap_all on.
EncodeUnwrapped(enc, source, u) ==
    IF u.samples = 0 \/ u.rate = 0 \/ u.channels = 0
    THEN [ret |-> "Ok", source |-> source, fed |-> <<>>, enc |-> enc]
    ELSE IF enc.sink = <<>>
    THEN [ret |-> "Closed", source |-> source, fed |-> <<>>, enc |-> enc]
    ELSE EncodeVecDone(enc, enc.desc,
                       EncodeLoop([status |-> "ok",
                                   sink |-> HeaderBlock(enc.sink[1], enc.has_header, enc.desc),
                                   lms |-> ResizeLmsStates(enc.lms_states, u.channels),
                                   frame |-> Frame_start(enc.frame, u.samples,
                                                         u.channels).frame,
                                   source |-> source, samples |-> u.samples,
                                   fed |-> <<>>],
                                  u.channels, u.rate))

\* encode once desc is inferred: only a fixed encoder checks the rate and
\* the channel count.
EncodeInferred(enc, source, desc) ==
    IF ~is_streaming(enc.desc) /\ DescriptorChanged(enc.desc, desc)
    THEN [ret |-> "InvalidDescriptorChange", source |-> source, fed |-> <<>>, enc |-> enc]
    ELSE EncodeUnwrapped(enc, source, unwrap_all(desc))

\* Encoder::encode: what it returns, the source and the encoder it leaves.
encode(enc, source) == EncodeInferred(enc, source, infer(source.desc, enc.desc))


(***************************************************************************)
(* An Encoder driven by its callers: encode_vec, encode, flush and close   *)
(* in any order, on a sink that accepts every write.                       *)
(***************************************************************************)
MaxCalls == 2

\* Declared sample counts of a fixed encoder, rates, channel counts.
EncCounts == { 30, 60, 5120, 5150 }
EncRates == <<44100, 48000>>
EncRate == EncRates[1]
OtherRate == EncRates[2]
EncChannels == { 1, 2 }

\* Samples per channel of one call: short of a slice, a slice and a half;
\* of a first call also a full frame, and a frame and a slice and a half.
VecLens == { 10, 30 }
FrameLens == { FRAME_LEN, FRAME_LEN + 30 }

\* The interleaved samples of a call.
EncSamples(n) == Periodic(<<100, -20000, 32767, -32768, 0, 7>>, n)

Desc(sample_count, sample_rate, channel_count) ==
    [sample_count |-> sample_count, sample_rate |-> sample_rate,
     channel_count |-> channel_count]

\* What a caller says of n samples per channel: all of it with one or two
\* channels, another rate, or nothing.
DescInputs(n) ==
    { Desc(<<n>>, <<EncRate>>, <<1>>), Desc(<<n>>, <<EncRate>>, <<2>>),
      Desc(<<n>>, <<OtherRate>>, <<1>>), StreamDescriptor_default }

\* The vector a caller hands over with descriptor d for n samples per channel.
VecOf(n, d) == EncSamples(n * Max(1, unwrap_or_default(d.channel_count)))

\* The calls: samples per channel and descriptor; a whole frame or more
\* comes with a full descriptor of the encoder's rate.
VecInputs == UNION { { <<n, d>> : d \in DescInputs(n) } : n \in VecLens }
FrameInputsEnc ==
    { <<n, Desc(<<n>>, <<EncRate>>, <<c>>)>> : n \in FrameLens, c \in EncChannels }

Called(op, n, desc, ret) == [op |-> op, n |-> n, desc |-> desc, ret |-> ret]

InitEnc ==
    /\ \/ \E count \in EncCounts, channels \in EncChannels :
              /\ en_enc = new_fixed(count, EncRate, channels, <<>>).enc
              /\ en_log = [mode |-> "fixed", sample_count |-> count,
                           channel_count |-> channels, calls |-> <<>>]
       \/ /\ en_enc = new_streaming(<<>>)
          /\ en_log = [mode |-> "streaming", sample_count |-> 0,
                       channel_count |-> 0, calls |-> <<>>]
    /\ en_ret = NotRun
    /\ en_out = NotRun
    /\ OldIdle /\ LmsIdle /\ ByteIdle

\* The state a call of encode_vec or encode leaves.
EncCalled(op, n, desc, r) ==
    /\ en_enc' = r.enc
    /\ en_ret' = [status |-> "ok", op |-> op, ret |-> r.ret, closed |-> en_enc.sink = <<>>,
                  fed |-> r.fed]
    /\ en_log' = [en_log EXCEPT !.calls = Append(@, Called(op, n, desc, r.ret))]
    /\ UNCHANGED <<en_out, oldVars, lmVars, bdVars>>

EncRunning == IF en_ret = NotRun THEN TRUE ELSE en_ret.ret # "panic"

\* A call of encode_vec(&mut source, desc).
EncodeVec ==
    /\ EncRunning
    /\ Len(en_log.calls) < MaxCalls
    /\ \E in \in VecInputs \cup (IF en_log.calls = <<>> THEN FrameInputsEnc ELSE {}) :
           EncCalled("encode_vec", in[1], in[2], encode_vec(en_enc, VecOf(in[1], in[2]), in[2]))

\* A call of encode(&mut source).
Encode ==
    /\ EncRunning
    /\ Len(en_log.calls) < MaxCalls
    /\ \E in \in VecInputs :
           EncCalled("encode", in[1], in[2],
                     encode(en_enc, [desc |-> in[2], data |-> VecOf(in[1], in[2])]))

\* The state a call of flush leaves.
Flushed(r) ==
    /\ en_enc' = r.enc
    /\ en_ret' = [status |-> "ok", op |-> "flush", ret |-> r.ret,
                  closed |-> en_enc.sink = <<>>]
    /\ UNCHANGED <<en_log, en_out, oldVars, lmVars, bdVars>>

\* A call of flush().
Flush == EncRunning /\ Flushed(flush(en_enc))

\* The state a call of close leaves: a sink handed back is kept.
ClosedTo(r) ==
    /\ en_enc' = r.enc
    /\ en_ret' = [status |-> "ok", op |-> "close", ret |-> r.ret,
                  closed |-> en_enc.sink = <<>>]
    /\ en_out' = IF r.ret = "Some" THEN [status |-> "ok", sink |-> r.out[1]] ELSE en_out
    /\ UNCHANGED <<en_log, oldVars, lmVars, bdVars>>

\* A call of close().
Close == EncRunning /\ ClosedTo(close(en_enc))

NextEnc == EncodeVec \/ Encode \/ Flush \/ Close

SpecEnc == InitEnc /\ [][NextEnc]_vars


(***************************************************************************)
(* The byte-slice decoder of decoder/bytes.rs.                             *)
(***************************************************************************)
\* LmsState::default() of decoder/bytes.rs: the derived Default, all zero.
BytesDefaultLms == [history |-> <<0, 0, 0, 0>>, weights |-> <<0, 0, 0, 0>>]

\* Source::decode_lms: two words per state; Eos when the source ends.
decode_lms(source, lms) ==
    LET RECURSIVE Chans(_, _, _)
        Chans(acc, lo, hi) ==
            IF acc.err # "" \/ lo > hi THEN acc
            ELSE IF lo = hi
                 THEN IF Len(acc.source) < 16
                      THEN [acc EXCEPT !.err = "Eos"]
                      ELSE [err |-> "", source |-> SubSeq(acc.source, 17, Len(acc.source)),
                            lms |-> [acc.lms EXCEPT ![lo] =
                                         LmsState_unpack(
                                             FromBeBytes(SubSeq(acc.source, 1, 8)),
                                             FromBeBytes(SubSeq(acc.source, 9, 16)))]]
            ELSE Chans(Chans(acc, lo, (lo + hi) \div 2), (lo + hi) \div 2 + 1, hi)
    IN  Chans([err |-> "", source |-> source, lms |-> lms], 1, Len(lms))

\* The body of the sample loop of decode_frame once dq and pr are known: re
\* is written to buf and fed to the LMS state.
BytesSampled(acc, dq, pr) ==
    [si    |-> acc.si + 1,
     lms   |-> bytes_update(acc.lms, Clamp(pr + dq, -32768, 32767), dq),
     slice |-> Shl(acc.slice, 3),
     buf   |-> Append(acc.buf, Clamp(pr + dq, -32768, 32767))]

\* The body of the sample loop of decode_frame for scale factor sf.
BytesSample(acc, sf) ==
    BytesSampled(acc, DEQUANT_TABLE[sf + 1][(Shr(acc.slice, 57)[4] % 8) + 1],
                 bytes_predict(acc.lms))

\* The sample loop of decode_frame: len samples of the slice word.  si is
\* the loop variable; n iterations are n \div 2 of them followed by the rest.
BytesSliceSamples(lms, slice, len) ==
    LET RECURSIVE Loop(_, _)
        Loop(acc, n) ==
            IF acc.si >= len \/ n = 0 THEN acc
            ELSE IF n = 1 THEN BytesSample(acc, Shr(slice, 60)[4] % 16)
            ELSE Loop(Loop(acc, n \div 2), n - n \div 2)
    IN  Loop([si |-> 0, lms |-> lms, slice |-> slice, buf |-> <<>>], len)

\* What the channel loop body of decode_frame leaves once the samples d of
\* the slice are decoded.
BytesSliced(acc, chn, d) ==
    [err |-> "", source |-> SubSeq(acc.source, 9, Len(acc.source)),
     lms |-> [acc.lms EXCEPT ![chn + 1] = d.lms], sink |-> acc.sink \o d.buf,
     words |-> acc.words + 1]

\* The channel loop body of decode_frame: one word read, len samples of it
\* appended to the sink.
BytesSlice(acc, chn, len) ==
    IF Len(acc.source) < 8 THEN [acc EXCEPT !.err = "Eos"]
    ELSE BytesSliced(acc, chn,
                     BytesSliceSamples(acc.lms[chn + 1],
                                       FromBeBytes(SubSeq(acc.source, 1, 8)), len))

\* The two loops of decode_frame: slices rows of channels words; word k
\* (from 0) is that of channel k % channels.
BytesSlices(acc0, slices, channels, len) ==
    LET RECURSIVE Fold(_, _, _)
        Fold(acc, lo, hi) ==
            IF acc.err # "" \/ lo > hi THEN acc
            ELSE IF lo = hi THEN BytesSlice(acc, lo % channels, len)
            ELSE Fold(Fold(acc, lo, (lo + hi) \div 2), (lo + hi) \div 2 + 1, hi)
    IN  Fold(acc0, 0, slices * channels - 1)

\* decode_frame from the slice loops on: the size it returns.
BytesFrameSized(f, channels, slices) ==
    IF f.err # "" THEN [err |-> f.err, lms |-> f.lms, sink |-> f.sink, words |-> f.words]
    ELSE [err |-> "", lms |-> f.lms, sink |-> f.sink, words |-> f.words,
          size |-> 8 * (channels * 2 + slices)]

\* decode_frame from decode_lms on: l is what decode_lms left.
BytesFrameLms(l, sink, samples, channels) ==
    IF l.err # "" THEN [err |-> l.err, lms |-> l.lms, sink |-> sink, words |-> 0]
    ELSE BytesFrameSized(
             BytesSlices([err |-> "", source |-> l.source, lms |-> l.lms, sink |-> sink,
                          words |-> 0],
                         Min(samples \div SLICE_LEN, 256), channels,
                         Min(SLICE_LEN, samples)),
             channels, Min(samples \div SLICE_LEN, 256))

\* Decoder::decode_frame of decoder/bytes.rs on its own copy of the source:
\* the size it returns, the LMS states and the sink it leaves, and the
\* slice words it read.
bytes_decode_frame(lms, source, sink, samples, channels) ==
    BytesFrameLms(decode_lms(source, [i \in 1..channels |->
                                          IF i <= Len(lms) THEN lms[i] ELSE BytesDefaultLms]),
                  sink, samples, channels)


\* One turn of the loop of Decoder::decode from decode_frame on: the source
\* moves on by the size returned, and samples is taken from sample_count,
\* which wraps below zero or panics in a build with overflow checks.  A
\* wrapped count is kept as the negative number it is short of 2^64.
BytesDecodeFramed(st, h, df, file_len, overflow_checks) ==
    IF df.err # ""
    THEN [st EXCEPT !.status = "err", !.err = df.err, !.sink = df.sink, !.lms = df.lms]
    ELSE IF df.size > Len(h.source)
    THEN [st EXCEPT !.status = "panic", !.sink = df.sink, !.lms = df.lms]
    ELSE IF overflow_checks /\ st.sample_count >= 0 /\ st.sample_count < h.samples
    THEN [st EXCEPT !.status = "panic", !.sink = df.sink, !.lms = df.lms]
    ELSE [status |-> "ok", err |-> "",
          source |-> SubSeq(h.source, df.size + 1, Len(h.source)),
          sink |-> df.sink, lms |-> df.lms,
          sample_count |-> st.sample_count - h.samples,
          sample_rate |-> IF st.sample_rate = 0 THEN h.rate ELSE st.sample_rate,
          channels |-> IF st.channels = 0 THEN h.channels ELSE st.channels,
          bytes |-> st.bytes + df.size + 8,
          frames |-> Append(st.frames,
                            [start |-> file_len - Len(st.source),
                             samples |-> h.samples, channels |-> h.channels,
                             words |-> df.words,
                             appended |-> Len(df.sink) - Len(st.sink),
                             next |-> file_len - (Len(h.source) - df.size)])]

\* One turn of the loop of Decoder::decode from the frame header read on.
BytesDecodeHeaded(st, h, file_len, overflow_checks) ==
    IF h.err # "" THEN [st EXCEPT !.status = "err", !.err = h.err]
    ELSE IF (st.sample_rate # 0 /\ st.sample_rate # h.rate)
            \/ (st.channels # 0 /\ st.channels # h.channels)
    THEN [st EXCEPT !.status = "err", !.err = "DescriptorChange"]
    ELSE BytesDecodeFramed(st, h,
                           bytes_decode_frame(st.lms, h.source, st.sink, h.samples,
                                              h.channels),
                           file_len, overflow_checks)

\* The loop of Decoder::decode: while sample_count > 0 or, in streaming
\* mode, the source is not empty.
RECURSIVE BytesDecodeLoop(_, _, _, _)
BytesDecodeLoop(st, streaming_mode, file_len, overflow_checks) ==
    IF st.status # "ok" THEN st
    ELSE IF ~(st.sample_count # 0 \/ (streaming_mode /\ st.source # <<>>))
    THEN [st EXCEPT !.status = "done"]
    ELSE BytesDecodeLoop(BytesDecodeHeaded(st, decode_frame_header(st.source), file_len,
                                           overflow_checks),
                         streaming_mode, file_len, overflow_checks)

\* Source::decode_file_header of decoder/bytes.rs.
decode_file_header(source) ==
    IF Len(source) < 8 THEN [err |-> "Eos"]
    ELSE IF SubSeq(source, 1, 4) # BytesU32(MAGIC)
    THEN [err |-> "UnknownMagic", bytes |-> SubSeq(source, 1, 4)]
    ELSE [err |-> "", source |-> SubSeq(source, 9, Len(source)),
          v |-> FromBeBytes(<<0, 0, 0, 0>> \o SubSeq(source, 5, 8))]

\* Decoder::decode from the file header on.  The sample counts of the
\* model are below 2^31.
BytesDecodeCounted(lms, sink, fh, file_len, overflow_checks) ==
    IF fh.err # ""
    THEN [status |-> "err", err |-> fh.err, sink |-> sink, lms |-> lms, frames |-> <<>>]
    ELSE BytesDecodeLoop([status |-> "ok", err |-> "", source |-> fh.source,
                          sink |-> sink, lms |-> lms,
                          sample_count |-> fh.v[3] * 65536 + fh.v[4],
                          sample_rate |-> 0, channels |-> 0, bytes |-> 8,
                          frames |-> <<>>],
                         fh.v[3] = 0 /\ fh.v[4] = 0, file_len, overflow_checks)

\* Decoder::decode(source, sink): the state the loop ends in; bytes is what
\* Ok carries when status is "done".
bytes_decode(lms, source, sink, overflow_checks) ==
    BytesDecodeCounted(lms, sink, decode_file_header(source), Len(source), overflow_checks)

(***************************************************************************)
(* The byte-slice decoder run over drawn files.                            *)
(***************************************************************************)
\* Samples a frame declares: less than a slice, a slice, a slice and one
\* sample, and up to MaxFrames slices.
ByteFrameSamples == { 1, SLICE_LEN, SLICE_LEN + 1 } \cup { SLICE_LEN * k : k \in 1..MaxFrames }

\* The sample counts a file header declares for k frames of n samples: the
\* samples of the frames, 0 (a streaming file), or one sample.
ByteCounts(k, n) == { k * n, 0, 1 }

\* A file of k frames of one shape, of 0 channels too.
InitBytes ==
    /\ \E c \in 0..MaxChannels, n \in ByteFrameSamples, l \in DecLmsInputs,
          sl \in DecSliceInputs, k \in 1..MaxFrames :
           \E count \in ByteCounts(k, n) :
               bd_file = enc_file_header(<<0, count>>)
                         \o Repeat(FrameBytes(c, n, l, sl), k)
    /\ bd_dec = [lms |-> <<>>]
    /\ bd_sink = <<>>
    /\ bd_ret = NotRun
    /\ OldIdle /\ LmsIdle /\ EncIdle

\* The state a call of Decoder::decode leaves.
BytesDecoded(r) ==
    /\ bd_dec' = [lms |-> r.lms]
    /\ bd_sink' = r.sink
    /\ bd_ret' = [status |-> r.status, err |-> r.err, frames |-> r.frames]
    /\ UNCHANGED <<bd_file, oldVars, lmVars, enVars>>

\* A call of Decoder::decode(&file, &mut sink) on a new decoder.
BytesDecode ==
    /\ bd_ret = NotRun
    /\ \E overflow_checks \in BOOLEAN :
           BytesDecoded(bytes_decode(bd_dec.lms, bd_file, bd_sink, overflow_checks))

NextBytes == BytesDecode

SpecBytes == InitBytes /\ [][NextBytes]_vars


(***************************************************************************)
(* The LMS functions of the three implementations applied to drawn states. *)
(***************************************************************************)
\* Four i16 lanes: the ends of the range, small values of both signs.
LmsLaneInputs ==
    { <<0, 0, 0, 0>>, <<-32768, -32768, -32768, -32768>>,
      <<32767, 32767, 32767, 32767>>, <<-32768, -32768, 0, 0>>,
      <<-1, 2, -3, 4>>, <<0, 0, -8192, 16384>>, <<32767, -32768, 100, -100>> }

\* Samples, and residuals of DEQUANT_TABLE.
LmsSampleInputs == { -32768, -5, 0, 32767 }
LmsResidualInputs == { -14336, -16, -1, 1, 7, 16, 5120, 14336 }

notLmVars == <<oldVars, enVars, bdVars>>
NotLmsIdle == OldIdle /\ EncIdle /\ ByteIdle

InitLms ==
    /\ \E h \in LmsLaneInputs, w \in LmsLaneInputs,
          sample \in LmsSampleInputs, residual \in LmsResidualInputs :
           lm_in = [lms |-> [history |-> h, weights |-> w],
                    sample |-> sample, residual |-> residual]
    /\ lm_pred = NotRun
    /\ lm_upd = NotRun
    /\ NotLmsIdle

\* predict() on the state in each implementation; the scalar ones in a
\* build with or without overflow checks.
LmsPredict ==
    /\ lm_pred.status = "none"
    /\ \E overflow_checks \in BOOLEAN :
           lm_pred' =
               IF overflow_checks /\ PredictOverflows(lm_in.lms, 4)
               THEN [status |-> "panic", simd |-> simd_predict(lm_in.lms)]
               ELSE [status |-> "ok",
                     scalar |-> predict(lm_in.lms),
                     bytes  |-> bytes_predict(lm_in.lms),
                     simd   |-> simd_predict(lm_in.lms)]
    /\ UNCHANGED <<lm_in, lm_upd, notLmVars>>

\* update(sample, residual) on the state in each implementation.
LmsUpdate ==
    /\ lm_upd.status = "none"
    /\ lm_upd' = [status |-> "ok",
                  scalar |-> update(lm_in.lms, lm_in.sample, lm_in.residual),
                  bytes  |-> bytes_update(lm_in.lms, lm_in.sample, lm_in.residual),
                  simd   |-> simd_update(lm_in.lms, lm_in.sample, lm_in.residual)]
    /\ UNCHANGED <<lm_in, lm_pred, notLmVars>>

NextLms == LmsPredict \/ LmsUpdate

SpecLms == InitLms /\ [][NextLms]_vars

(***************************************************************************)
(* The PCM frame and buffer of pcm_io.rs.  A PcmFrame is its fields: data  *)
(* (interleaved), len and size (samples per channel), rate and chan.       *)
(***************************************************************************)
MaxBlocks == 2    \* blocks written to a frame
MaxTurns == 12    \* turns of the loop of PcmBuffer::read that are followed

\* PcmFrame::new.
PcmFrame_new(sample_count, sample_rate, channel_count) ==
    [data |-> <<>>, len |-> 0, size |-> sample_count, rate |-> sample_rate,
     chan |-> channel_count]

\* Vec::resize(n, 0).
VecResize(v, n) == [k \in 1..n |-> IF k <= Len(v) THEN v[k] ELSE 0]

\* PcmFrame::write once samples is known: the resize for channel 0, the
\* length moved for the last channel otherwise, then data[off + i] = buf[i]
\* for i in 0..samples, which panics at the first index beyond data.
PcmFrameWritten(frame, buf, chn, samples, data) ==
    IF samples = 0 THEN [status |-> "ok", ret |-> 0, frame |-> frame]
    ELSE [status |-> IF frame.len * frame.chan + chn + samples > Len(data)
                     THEN "panic" ELSE "ok",
          ret    |-> samples,
          frame  |-> [frame EXCEPT
                         !.len  = IF chn # 0 /\ chn = frame.chan - 1
                                  THEN frame.len + samples ELSE frame.len,
                         !.data = [k \in 1..Len(data) |->
                                       IF /\ k - 1 >= frame.len * frame.chan + chn
                                          /\ k - 1 < frame.len * frame.chan + chn + samples
                                       THEN buf[k - frame.len * frame.chan - chn]
                                       ELSE data[k]]]]

\* PcmFrame::write(buf, chn).  size - len below zero panics in a build with
\* overflow checks and wraps to a large number otherwise.
PcmFrame_write(frame, buf, chn, overflow_checks) ==
    IF chn >= frame.chan THEN [status |-> "panic", ret |-> 0, frame |-> frame]
    ELSE IF frame.size < frame.len /\ overflow_checks
    THEN [status |-> "panic", ret |-> 0, frame |-> frame]
    ELSE PcmFrameWritten(frame, buf, chn,
                         IF frame.size < frame.len THEN Len(buf)
                         ELSE Min(Len(buf), frame.size - frame.len),
                         IF chn = 0 /\ (frame.size < frame.len
                                        \/ Min(Len(buf), frame.size - frame.len) # 0)
                         THEN VecResize(frame.data,
                                        frame.len
                                        + (IF frame.size < frame.len THEN Len(buf)
                                           ELSE Min(Len(buf), frame.size - frame.len))
                                          * frame.chan)
                         ELSE frame.data)

\* PcmFrame::write_interleaved once len is data.len(): samples per channel
\* taken, the total appended and returned.
PcmFrameExtended(frame, buf, samples) ==
    [status |-> "ok", ret |-> samples * frame.chan,
     frame  |-> [frame EXCEPT !.len = Len(frame.data) + samples,
                              !.data = @ \o SubSeq(buf, 1, samples * frame.chan)]]

\* PcmFrame::write_interleaved(buf): len becomes data.len(), and the
\* capacity size - len is taken of that.
PcmFrame_write_interleaved(frame, buf, overflow_checks) ==
    IF frame.size < Len(frame.data) /\ overflow_checks
    THEN [status |-> "panic", ret |-> 0, frame |-> [frame EXCEPT !.len = Len(frame.data)]]
    ELSE PcmFrameExtended(frame, buf,
                          IF frame.size < Len(frame.data) THEN Len(buf) \div frame.chan
                          ELSE Min(Len(buf) \div frame.chan,
                                   frame.size - Len(frame.data)))

\* PcmFrame::read from the write to the sink on: len is lowered by what the
\* sink took and data truncated to the new length.
PcmFrameRead(frame, w) ==
    IF w.status = "panic" THEN [status |-> "panic", ret |-> 0, frame |-> frame, sink |-> w.frame]
    ELSE [status |-> "ok", ret |-> w.ret, sink |-> w.frame,
          frame  |-> [frame EXCEPT
                         !.len  = Max(0, frame.len - w.ret),
                         !.data = SubSeq(@, 1, Min(Len(@),
                                                   Max(0, frame.len - w.ret) * frame.chan))]]

\* PcmFrame::read(sink, sample_count) into a PcmFrame.
PcmFrame_read(frame, sink, sample_count, overflow_checks) ==
    IF Min(sample_count, frame.len * frame.chan) > Len(frame.data)
    THEN [status |-> "panic", ret |-> 0, frame |-> frame, sink |-> sink]
    ELSE PcmFrameRead(frame,
                      PcmFrame_write_interleaved(
                          sink,
                          SubSeq(frame.data, 1, Min(sample_count, frame.len * frame.chan)),
                          overflow_checks))

\* PcmFrame::is_empty.
PcmFrame_is_empty(frame) == frame.len = 0

\* PcmBuffer::len: the samples per channel of all frames.
RECURSIVE PcmBuffer_len(_)
PcmBuffer_len(buf) ==
    IF buf = <<>> THEN 0 ELSE buf[1].len + PcmBuffer_len(SubSeq(buf, 2, Len(buf)))

\* One turn of the loop of PcmBuffer::read on what frame.read returned for
\* the frame popped: the frame is pushed back unless it is empty.
PcmBufferTurned(buf, run, r) ==
    [buf  |-> IF r.status = "panic" \/ PcmFrame_is_empty(r.frame)
              THEN SubSeq(buf, 1, Len(buf) - 1)
              ELSE [buf EXCEPT ![Len(buf)] = r.frame],
     sink |-> r.sink,
     run  |-> [run EXCEPT !.status = IF r.status = "panic" THEN "panic" ELSE "loop",
                          !.count = @ + r.ret,
                          !.turns = @ + 1]]

\* One evaluation of the loop condition of PcmBuffer::read and the turn it
\* starts: count < sample_count and a frame popped from the end of buf, read
\* with count as its sample_count; otherwise read returns count.
PcmBufferTurn(buf, sink, run, overflow_checks) ==
    IF run.count < run.sample_count /\ buf # <<>>
    THEN PcmBufferTurned(buf, run,
                         PcmFrame_read(buf[Len(buf)], sink, run.count, overflow_checks))
    ELSE [buf |-> buf, sink |-> sink,
          run |-> [run EXCEPT !.status = "done", !.ret = run.count]]

\* PcmBuffer::read(sink, sample_count) up to its loop: 0 is returned for
\* sample_count 0.  held and frames are what the buffer holds at the call.
PcmBufferCalled(buf, sink, sample_count) ==
    [status |-> IF sample_count = 0 THEN "done" ELSE "loop",
     sample_count |-> sample_count, count |-> 0, turns |-> 0, ret |-> 0,
     held |-> PcmBuffer_len(buf), frames |-> Len(buf), sunk |-> sink.len]

(***************************************************************************)
(* A PcmFrame written to block by block, channel after channel, and a      *)
(* PcmBuffer read into it.                                                 *)
(***************************************************************************)
\* The capacities of the frame written to.
SinkSizes == { MaxShort, 2 * MaxShort }

\* Sample i of channel c of block b.
BlockData(b, c, n) == [i \in 1..n |-> 100 * b + 10 * c + i]

\* A frame of a PcmBuffer holding len samples per channel.
HeldFrame(len, chan) ==
    [data |-> Periodic(<<1, -2, 3, -4, 5>>, len * chan), len |-> len, size |-> MaxShort,
     rate |-> 44100, chan |-> chan]

\* The frames a PcmBuffer holds: up to MaxFrames frames, empty ones too.
HeldInputs(chan) ==
    UNION { [1..k -> { HeldFrame(len, chan) : len \in 0..MaxShort }] : k \in 0..MaxFrames }

InitPcm ==
    /\ \E chan \in 1..MaxChannels, size \in SinkSizes :
           /\ pcm_sink = PcmFrame_new(size, 44100, chan)
           /\ pcm_buf \in HeldInputs(chan)
    /\ pcm_read = [status |-> "idle"]
    /\ pcm_log = [status |-> "ok", blocks |-> 0, old_len |-> 0, n |-> 0, free |-> TRUE,
                  block |-> <<>>]
    /\ FirstIdle /\ QoaIdle /\ WgtIdle /\ DrvIdle

\* The state a write(buf, chn) call of a block leaves.
PcmWritten(log, buf, r) ==
    /\ pcm_sink' = r.frame
    /\ pcm_log' = [log EXCEPT !.status = r.status, !.block = Append(@, buf)]
    /\ UNCHANGED <<pcm_buf, pcm_read, firstVars, qeVars, wgVars, drVars>>

\* The log when the write of channel 0 starts a block of n samples.
BlockStarted(n) ==
    [status |-> "ok", blocks |-> pcm_log.blocks + 1, old_len |-> pcm_sink.len, n |-> n,
     free |-> pcm_sink.len + n <= pcm_sink.size, block |-> <<>>]

\* A call of PcmFrame::write(buf, chn): channel 0 starts a block of n
\* samples, the channels after it are written with the same n.
Write ==
    /\ pcm_read.status = "idle" /\ pcm_log.status = "ok"
    /\ \E overflow_checks \in BOOLEAN :
           IF Len(pcm_log.block) = pcm_sink.chan \/ pcm_log.blocks = 0
           THEN /\ pcm_log.blocks < MaxBlocks
                /\ \E n \in 1..MaxShort :
                       PcmWritten(BlockStarted(n), BlockData(pcm_log.blocks + 1, 0, n),
                                  PcmFrame_write(pcm_sink,
                                                 BlockData(pcm_log.blocks + 1, 0, n), 0,
                                                 overflow_checks))
           ELSE PcmWritten(pcm_log,
                           BlockData(pcm_log.blocks, Len(pcm_log.block), pcm_log.n),
                           PcmFrame_write(pcm_sink,
                                          BlockData(pcm_log.blocks, Len(pcm_log.block),
                                                    pcm_log.n),
                                          Len(pcm_log.block), overflow_checks))

\* A call of PcmBuffer::read(&mut sink, sample_count) up to its loop.
ReadCall ==
    /\ pcm_read.status = "idle" /\ pcm_log.status = "ok"
    /\ \E sample_count \in {0, 1, MaxShort, 2 * MaxShort + 1} :
           pcm_read' = PcmBufferCalled(pcm_buf, pcm_sink, sample_count)
    /\ UNCHANGED <<pcm_buf, pcm_sink, pcm_log, firstVars, qeVars, wgVars, drVars>>

\* The state a turn of the loop leaves.
ReadTurned(t) ==
    /\ pcm_buf' = t.buf
    /\ pcm_sink' = t.sink
    /\ pcm_read' = t.run
    /\ UNCHANGED <<pcm_log, firstVars, qeVars, wgVars, drVars>>

\* One evaluation of the loop condition of PcmBuffer::read with the turn
\* or the return that follows.
ReadTurn ==
    /\ pcm_read.status = "loop" /\ pcm_read.turns < MaxTurns
    /\ \E overflow_checks \in BOOLEAN :
           ReadTurned(PcmBufferTurn(pcm_buf, pcm_sink, pcm_read, overflow_checks))

NextPcm == Write \/ ReadCall \/ ReadTurn

SpecPcm == InitPcm /\ [][NextPcm]_vars


(***************************************************************************)
(* The QoaEncoder of lib.rs and its enc and enc_frame.  The sink is the    *)
(* sequence of the writes made to it.                                      *)
(***************************************************************************)
\* QoaEncoder::new: `sample_rate & 0xFFF`.
QoaEncoder_new(sample_count, sample_rate, channel_count, source) ==
    [options |-> [mode |-> "Fixed", sample_count |-> sample_count,
                  sample_rate |-> sample_rate % 4096, channel_count |-> channel_count],
     source  |-> source]

\* QoaSink::write_frame_header of lib.rs: the channel count, the low three
\* bytes of the rate, the sample count and the size.
write_frame_header(channel_count, sample_rate, sample_count, size) ==
    <<channel_count>>
    \o <<(sample_rate \div 65536) % 256, (sample_rate \div 256) % 256, sample_rate % 256>>
    \o BytesU16(sample_count)
    \o BytesU16(size)

\* The channel loop body of enc_frame of lib.rs for the slice that starts
\* at sample: the search of enc_slice over the samples from slice_start
\* on, then lms_states[chn] = best_lms and the word written.
LibSliceChannel(out, samples, channel_count, sample, chn) ==
    IF out.status = "panic" THEN out
    ELSE EncSliceWrite(out, chn, Min(SLICE_LEN, Len(samples) - sample),
                       EncSliceBest(out.lms[chn + 1],
                                    SubSeq(samples, sample * channel_count + chn + 1,
                                           Len(samples)),
                                    channel_count,
                                    Min(SLICE_LEN, Len(samples) - sample)))

\* The two loops of enc_frame of lib.rs: step k (from 0) is channel
\* k % channel_count of the slice that starts at sample
\* (k \div channel_count) * SLICE_LEN.
LibSlices(out0, samples, channel_count, sample_count) ==
    LET RECURSIVE Fold(_, _, _)
        Fold(out, lo, hi) ==
            IF out.status = "panic" \/ lo > hi THEN out
            ELSE IF lo = hi
                 THEN LibSliceChannel(out, samples, channel_count,
                                      (lo \div channel_count) * SLICE_LEN,
                                      lo % channel_count)
            ELSE Fold(Fold(out, lo, (lo + hi) \div 2), (lo + hi) \div 2 + 1, hi)
    IN  Fold(out0, 0, ((sample_count + SLICE_LEN - 1) \div SLICE_LEN) * channel_count - 1)

\* enc_frame of lib.rs: channel_count is lms_states.len() as u8 and
\* sample_count samples.len() as u16; slices and size are computed on u16.
lib_enc_frame(samples, sample_rate, lms_states, sink) ==
    LibSlices([status |-> "ok",
               sink |-> Append(sink,
                               [kind |-> "frame_header", chn |-> 0,
                                bytes |-> write_frame_header(
                                              Len(lms_states) % 256, sample_rate,
                                              Len(samples) % 65536,
                                              FrameSize(Len(lms_states) % 256,
                                                        (((Len(samples) % 65536) + SLICE_LEN - 1)
                                                             % 65536) \div SLICE_LEN))])
                        \o LmsWrites(lms_states),
               lms |-> lms_states],
              samples, Len(lms_states) % 256, Len(samples) % 65536)

\* Pcm16Source::exhausted of a source that holds the interleaved samples
\* data.
lib_exhausted(source) == source.data = <<>>

\* Pcm16Source::read_frame into a buffer of buflen samples.  Pcm16Reader
\* reads into an empty Vec, so that no sample is read and copy_from_slice
\* panics unless the buffer is empty too; a source that does what the trait
\* says fills the buffer with the samples it has left.
read_frame(source, buflen) ==
    IF source.kind = "Pcm16Reader"
    THEN [status |-> IF buflen = 0 THEN "ok" ELSE "panic", n |-> 0, buf |-> <<>>,
          source |-> source]
    ELSE [status |-> "ok", n |-> Min(buflen, Len(source.data)),
          buf    |-> SubSeq(source.data, 1, Min(buflen, Len(source.data))),
          source |-> [source EXCEPT !.data = SubSeq(@, Min(buflen, Len(@)) + 1, Len(@))]]

\* One turn of the loop of enc from the read on.
LibEncRead(st, sample_rate, rd) ==
    IF rd.status = "panic" THEN [st EXCEPT !.status = "panic"]
    ELSE [lib_enc_frame(rd.buf, sample_rate, st.lms, st.sink)
              EXCEPT !.status = IF @ = "panic" THEN "panic" ELSE "ok"]
         @@ [source |-> rd.source]

\* One turn of the loop of enc: frame_len samples are asked of the source;
\* frame_buf holds FRAME_LEN of them, and the range ..frame_len panics
\* beyond.
LibEncTurn(st, channel_count, sample_rate, sample_count) ==
    IF Min(FRAME_LEN, sample_count) * channel_count > FRAME_LEN
    THEN [st EXCEPT !.status = "panic"]
    ELSE LibEncRead(st, sample_rate,
                    read_frame(st.source, Min(FRAME_LEN, sample_count) * channel_count))

\* The loop of enc: while the source is not exhausted.  A channel_count of
\* 0 is replaced by the source's in every turn.
RECURSIVE LibEncLoop(_, _, _, _)
LibEncLoop(st, channel_count, sample_rate, sample_count) ==
    IF st.status # "ok" THEN st
    ELSE IF lib_exhausted(st.source) THEN [st EXCEPT !.status = "done"]
    ELSE LibEncLoop(LibEncTurn(st,
                               IF channel_count = 0 THEN st.source.channels
                               ELSE channel_count,
                               sample_rate, sample_count),
                    channel_count, sample_rate, sample_count)

\* enc of lib.rs: the rate check, the LMS states (fill on a Vec of length
\* 0 leaves it empty), the file header and the loop.  A sample_count of 0
\* stands for usize::MAX, of which only min(FRAME_LEN, .) is used.
lib_enc(source, channel_count, sample_rate, sample_count, sink) ==
    IF sample_rate < 1 \/ sample_rate > 16777215
    THEN [status |-> "InvalidRate", sink |-> sink, source |-> source, lms |-> <<>>]
    ELSE LibEncLoop([status |-> "ok", source |-> source, lms |-> <<>>,
                     sink |-> Append(sink, [kind |-> "file_header", chn |-> 0,
                                            bytes |-> enc_file_header(
                                                          <<0, sample_count>>)])],
                    channel_count, sample_rate,
                    IF sample_count = 0 THEN FRAME_LEN ELSE sample_count)

\* QoaEncoder::encode in fixed mode, the only mode new constructs.
QoaEncoder_encode(enc, sink) ==
    lib_enc(enc.source, enc.options.channel_count, enc.options.sample_rate,
            enc.options.sample_count, sink)

(***************************************************************************)
(* A QoaEncoder constructed and run once.                                  *)
(***************************************************************************)
\* Rates handed to QoaEncoder::new, with both ends of [1, 2^24).
QoaRates == { 1, 4095, 4096, 8000, 44100, 16777215 }
QoaCounts == { 0, SLICE_LEN, FRAME_LEN }

\* The sources: a Pcm16Reader or another Pcm16Source, of 1 or 2 channels,
\* with nothing, half a slice or two slices per channel left.
QoaSources ==
    { [kind |-> k, channels |-> c, data |-> EncSamples(n * c)] :
          k \in {"Pcm16Reader", "Pcm16Source"}, c \in 1..MaxChannels,
          n \in {0, SLICE_LEN \div 2, 2 * SLICE_LEN} }

InitQoa ==
    /\ \E sample_count \in QoaCounts, sample_rate \in QoaRates,
          channel_count \in 0..MaxChannels, source \in QoaSources :
           /\ qe_enc = QoaEncoder_new(sample_count, sample_rate, channel_count, source)
           /\ qe_log = [status |-> "ok", sample_count |-> sample_count,
                        sample_rate |-> sample_rate, channel_count |-> channel_count]
    /\ qe_sink = <<>>
    /\ qe_ret = NotRun
    /\ FirstIdle /\ PcmIdle /\ WgtIdle /\ DrvIdle

\* The state a call of encode leaves.
QoaEncoded(r) ==
    /\ qe_enc' = [qe_enc EXCEPT !.source = r.source]
    /\ qe_sink' = r.sink
    /\ qe_ret' = [status |-> r.status]
    /\ UNCHANGED <<qe_log, firstVars, pcmVars, wgVars, drVars>>

\* A call of QoaEncoder::encode(&mut sink).
QoaEncode == qe_ret = NotRun /\ QoaEncoded(QoaEncoder_encode(qe_enc, qe_sink))

NextQoa == QoaEncode

SpecQoa == InitQoa /\ [][NextQoa]_vars


(***************************************************************************)
(* A run of sample updates on the LMS state of one channel, from the       *)
(* default state, by the decoder's sample loop or by the encoder's         *)
(* scale_sample.                                                           *)
(***************************************************************************)
MaxUpdates == 19

\* The sum `*weight += ...` of QoaLmsState::update computes for weight i,
\* before it is stored in the i16 lane.
WeightSum(lms, residual, i) ==
    lms.weights[i]
        + (IF lms.history[i] < 0 THEN ToI16(-ToI16(residual \div 16))
           ELSE ToI16(residual \div 16))

WeightSums(lms, residual) == [i \in 1..4 |-> WeightSum(lms, residual, i)]

\* One turn of the sample loop of Decoder::decode_frame for the residual
\* index qr of a slice of scale factor quant.
DecSample(lms, quant, qr) ==
    [reconst     |-> ToI16(AddI32(predict(lms), DEQUANT_TABLE[quant + 1][qr + 1])),
     dequantized |-> DEQUANT_TABLE[quant + 1][qr + 1],
     lms         |-> update(lms,
                            ToI16(AddI32(predict(lms), DEQUANT_TABLE[quant + 1][qr + 1])),
                            DEQUANT_TABLE[quant + 1][qr + 1])]

\* The largest scale factor and the residual indices of its two largest
\* dequantized values; the extreme samples.
WgtQuants == { 15 }
WgtResids == { 6, 7 }
WgtSamples == { -32768, 32767 }

InitWgt ==
    /\ wg_lms = DefaultLms
    /\ \E side \in {"decoder", "encoder"} :
           wg_log = [status |-> "ok", side |-> side, n |-> 0, sums |-> DefaultLms.weights]
    /\ FirstIdle /\ PcmIdle /\ QoaIdle /\ DrvIdle

\* The state an update leaves: a sum beyond the i16 lane panics in a build
\* with overflow checks and wraps in one without.
WgtUpdated(r) ==
    /\ \E overflow_checks \in BOOLEAN :
           wg_log' = [wg_log EXCEPT
                         !.n = @ + 1,
                         !.sums = WeightSums(wg_lms, r.dequantized),
                         !.status = IF /\ overflow_checks
                                       /\ \E i \in 1..4 :
                                              WeightSum(wg_lms, r.dequantized, i)
                                                  \notin -32768..32767
                                    THEN "panic" ELSE "ok"]
    /\ wg_lms' = r.lms
    /\ UNCHANGED <<firstVars, pcmVars, qeVars, drVars>>

\* The decoder decodes one more sample.
DecUpdate ==
    /\ wg_log.side = "decoder" /\ wg_log.status = "ok" /\ wg_log.n < MaxUpdates
    /\ \E quant \in WgtQuants, qr \in WgtResids : WgtUpdated(DecSample(wg_lms, quant, qr))

\* The encoder scales one more sample.
EncUpdate ==
    /\ wg_log.side = "encoder" /\ wg_log.status = "ok" /\ wg_log.n < MaxUpdates
    /\ \E sf \in WgtQuants, sample \in WgtSamples :
           WgtUpdated(scale_sample(sample, sf, wg_lms))

NextWgt == DecUpdate \/ EncUpdate

SpecWgt == InitWgt /\ [][NextWgt]_vars


(***************************************************************************)
(* The slice driver and the slice replay: QoaSink::enc_slice on the input  *)
(* of the scaler, and the decoders' sample loops on the scaler's word.     *)
(***************************************************************************)
\* The reconstructed samples scale_sample computes in the fold of
\* LinearScaler::scale for scale factor sf: one per index of rng, each from
\* the LMS state the sample before left.
ScalerReconst(sf, lms, samples, rng, len) ==
    LET Sample(acc) ==
            LET r == scale_sample(samples[rng[acc.si + 1]], sf, acc.lms)
            IN  [si |-> acc.si + 1, lms |-> r.lms, buf |-> Append(acc.buf, r.reconst)]
        RECURSIVE Loop(_, _)
        Loop(acc, n) ==
            IF acc.si >= len \/ n = 0 THEN acc
            ELSE IF n = 1 THEN Sample(acc)
            ELSE Loop(Loop(acc, n \div 2), n - n \div 2)
    IN  Loop([si |-> 0, lms |-> lms, buf |-> <<>>], len)

\* The scale factor min_by_key chose in LinearScaler::scale.
WinningSf(l) == MinByKey(l.cands) - 1

\* The word of the scaler decoded again from the caller's LMS state: what
\* the scaler reconstructed, and what the sample loops of decoder.rs and of
\* decoder/bytes.rs make of the word.
SliceReplay(l, lms, samples, chn, channel_count) ==
    [status  |-> "ok",
     scaler  |-> ScalerReconst(WinningSf(l), lms, samples,
                               ReadIndices(samples, chn, channel_count), l.len).buf,
     decoder |-> DecSliceSamples(lms, unpack(l.word), l.len),
     bytes   |-> BytesSliceSamples(lms, l.word, l.len)]

\* A call of enc_slice(samples, channel_count, lms) on the window of the
\* scaler, every channel starting from the scaler's LMS state.
EncSliceDriven ==
    /\ drv.status = "none"
    /\ drv' = enc_slice(<<>>, sc_samples, sc_channels, [c \in 1..sc_channels |-> sc_lms0])
    /\ UNCHANGED <<rep, firstVars, pcmVars, qeVars, wgVars>>

\* The word LinearScaler::scale returned is decoded from the LMS state the
\* scaler started from.
SliceReplayed ==
    /\ lin.status = "ok"
    /\ rep.status = "none"
    /\ rep' = SliceReplay(lin, sc_lms0, sc_samples, sc_chn, sc_channels)
    /\ UNCHANGED <<drv, firstVars, pcmVars, qeVars, wgVars>>

NextDrive == LinearScalerScale \/ EncSliceDriven \/ SliceReplayed

SpecDrive == InitScale /\ [][NextDrive]_vars


(***************************************************************************)
(* Properties of the wire format.                                          *)
(***************************************************************************)
\* The word the bytes written hold.
WireWord == FromBeBytes(wire_bytes)

\* In the word w, quant sits in bits 63..60 and residual i (0..19) of data
\* in bits (59 - 3i)..(57 - 3i).
SliceBitsAre(w, quant, data) ==
    /\ Field(w, 63, 60) = quant
    /\ \A i \in 0..19 : Field(w, 59 - 3 * i, 57 - 3 * i) = data[i + 1]

\* C5: QoaSlice::pack places quant in bits 63..60 of the word and residual i
\* in bits (59 - 3i)..(57 - 3i), and QoaSlice::unpack (both of them) reads
\* quant and the 20 residuals from those same bit positions.
C5_SliceBitPositions ==
    (wire_in.kind = "slice" /\ wire_bytes # <<>>) =>
        /\ SliceBitsAre(WireWord, wire_in.slice.quant, wire_in.slice.data)
        /\ wire_out.status = "ok" =>
               /\ SliceBitsAre(WireWord, wire_out.lib.quant, wire_out.lib.data)
               /\ SliceBitsAre(WireWord, wire_out.dec.quant, wire_out.dec.resid)

\* C5's case: the slice of the repository's test data was packed into the
\* test's bytes and unpacked.
C5_Witness ==
    /\ wire_in.kind = "slice"
    /\ wire_in.slice = TestSlice
    /\ wire_bytes = TestPacked
    /\ wire_out.status = "ok"

\* C6: for every quant in 0..15 and 20 residuals in 0..7, pack followed by
\* unpack (either of them) yields the original quant and residuals.
C6_SliceRoundTrip ==
    (wire_in.kind = "slice" /\ wire_out.status = "ok") =>
        /\ wire_out.lib.quant = wire_in.slice.quant
        /\ wire_out.lib.data = wire_in.slice.data
        /\ wire_out.dec.quant = wire_in.slice.quant
        /\ wire_out.dec.resid = wire_in.slice.data

\* C6's case: a slice of the greatest quant, whose last residual differs
\* from the others, came back from the bytes it was packed into.
C6_Witness ==
    /\ wire_in.kind = "slice"
    /\ wire_in.slice.quant = 15
    /\ wire_in.slice.data[1] = 7
    /\ wire_in.slice.data[20] = 5
    /\ wire_out.status = "ok"
    /\ wire_out.lib.data[20] = 5
    /\ wire_out.dec.resid[1] = 7

\* C7: an LMS state of 16-bit history and weights written by enc_lms_state
\* is read back by dec_lms, and by LmsState::unpack, as the original state.
C7_LmsRoundTrip ==
    (wire_in.kind = "lms" /\ wire_out.status = "ok") =>
        /\ wire_out.dec.err = ""
        /\ wire_out.dec.lms = wire_in.lms
        /\ wire_out.dec.source = <<>>
        /\ wire_out.bytes = wire_in.lms

\* C7's case: a state with negative lanes, extremes included, came back.
C7_Witness ==
    /\ wire_in.kind = "lms"
    /\ wire_in.lms.history = <<-32768, 32767, -1, 1>>
    /\ wire_in.lms.weights = <<-3, 120, -32768, 32767>>
    /\ Len(wire_bytes) = 16
    /\ wire_out.status = "ok"
    /\ wire_out.dec.lms.history[1] = -32768

\* C8: the word enc_frame_header writes for channels in 1..255, a rate in
\* [1, 2^24), a sample count in 1..65535 and the size it computes is read
\* back by dec_frame_header, and by decode_frame_header, as the same
\* (channels, rate, samples, size).
C8_FrameHeaderRoundTrip ==
    (wire_in.kind = "frame" /\ wire_out.status = "ok") =>
        LET h    == wire_in.header
            size == FrameSize(h.channels, h.slices)
        IN  /\ Len(wire_bytes) = 8
            /\ wire_bytes[7] * 256 + wire_bytes[8] = size
            /\ \A d \in {wire_out.dec, wire_out.bytes} :
                   /\ d.err = ""
                   /\ d.channels = h.channels
                   /\ d.rate = h.rate
                   /\ d.samples = h.samples
                   /\ d.size = size

\* C8's case: a header of the greatest channel count, rate and sample count
\* was written and read back.
C8_Witness ==
    /\ wire_in.kind = "frame"
    /\ wire_in.header.channels = 255
    /\ wire_in.header.rate = 16777215
    /\ wire_in.header.samples = 65535
    /\ wire_out.status = "ok"
    /\ wire_out.dec.rate = 16777215

(***************************************************************************)
(* Properties of the streaming decoder.                                    *)
(***************************************************************************)
\* C4: every sample decode_frame puts into slice_buf, writes to the sink and
\* feeds back into the LMS state is clamp(predicted + dequantized, -32768,
\* 32767): a sum outside the 16-bit range is saturated, never wrapped.
C4_DecoderSaturates ==
    dc_ret.status # "none" =>
        \A i \in 1..Len(dc_ret.trace) :
            dc_ret.trace[i].reconst =
                Clamp(dc_ret.trace[i].predicted + dc_ret.trace[i].dequantized,
                      -32768, 32767)

\* The first word of the file: its upper and lower halves as bytes.
FirstUpper == SubSeq(dc_file, 1, 4)
FirstLower == SubSeq(dc_file, 5, 8)

\* C9: the call that decodes the first word of the file returns
\* UnknownMagic with the word's first four bytes exactly when its upper half
\* is not "qoaf", nothing having reached the sink; otherwise the file header
\* read is the lower half, so that a header written by enc_file_header(n)
\* is read as n.
C9_FileHeaderMagic ==
    (dc_ret.status # "none" /\ dc_ret.hdr # <<>>) =>
        IF FirstUpper # BytesU32(MAGIC)
        THEN /\ dc_ret.status = "err"
             /\ dc_ret.err = "UnknownMagic"
             /\ dc_ret.hdr[1].err = "UnknownMagic"
             /\ dc_ret.hdr[1].bytes = FirstUpper
             /\ dc_sink = NewSink
        ELSE /\ dc_ret.status = "err" => dc_ret.err # "UnknownMagic"
             /\ dc_ret.hdr[1].err = ""
             /\ BytesU32(dc_ret.hdr[1].v) = FirstLower
             /\ \A n \in CountInputs :
                    SubSeq(dc_file, 1, 8) = enc_file_header(n) => dc_ret.hdr[1].v = n

\* C9's case: a file of eight zero bytes followed by a frame was refused
\* with UnknownMagic([0, 0, 0, 0]), the sink untouched.
C9_Witness ==
    /\ Len(dc_file) > 8
    /\ SubSeq(dc_file, 1, 8) = <<0, 0, 0, 0, 0, 0, 0, 0>>
    /\ dc_ret.status = "err"
    /\ dc_ret.err = "UnknownMagic"
    /\ dc_ret.hdr[1].bytes = <<0, 0, 0, 0>>
    /\ dc_sink = NewSink

(***************************************************************************)
(* Properties of the rounding divides.                                     *)
(***************************************************************************)
\* n + sign(v) - sign(n) for n = (v * RECIP_TABLE[sf] + 2^15) >> 16 taken in
\* the integers.
ExactDiv(v, sf) ==
    LET n == MulAddShr64(v, RECIP_TABLE[sf + 1])
    IN  AddI32(n, Sign(v) - Sign(n))

\* C10: for every v of the i32 range and every sf in 0..15 the scalar div
\* returns n + sign(v) - sign(n) for the n computed without wraparound, and
\* lane sf of the vector div returns the same value.
C10_DivWithoutWraparound ==
    /\ dv_scalar.status # "none" =>
           dv_scalar = [status |-> "ok", value |-> ExactDiv(dv_v, dv_sf)]
    /\ dv_vector.status # "none" =>
           dv_vector = [status |-> "ok", value |-> ExactDiv(dv_v, dv_sf)]
    /\ (dv_scalar.status # "none" /\ dv_vector.status # "none") =>
           dv_scalar = dv_vector

(***************************************************************************)
(* Properties of the LMS functions.                                        *)
(***************************************************************************)
\* (history[0] * weights[0] + ... + history[3] * weights[3]) >> 13 in the
\* integers: each product p is (p \div 2^13) * 2^13 + p % 2^13.
ExactPredict(lms) ==
    LET p(i) == lms.history[i] * lms.weights[i]
    IN  (p(1) \div 8192) + (p(2) \div 8192) + (p(3) \div 8192) + (p(4) \div 8192)
        + ((p(1) % 8192) + (p(2) % 8192) + (p(3) % 8192) + (p(4) % 8192)) \div 8192

\* C11: for every LMS state of 16-bit lanes predict returns the sum of the
\* four products shifted right by 13, computed without overflow or
\* wraparound, in the scalar implementations and in the vectorized one.
C11_PredictWithoutOverflow ==
    lm_pred.status # "none" =>
        /\ lm_pred.status = "ok"
        /\ lm_pred.scalar = ExactPredict(lm_in.lms)
        /\ lm_pred.bytes = ExactPredict(lm_in.lms)
        /\ lm_pred.simd = ExactPredict(lm_in.lms)

\* What C12 says update leaves: each weight moved by delta = residual >> 4
\* against the sign of its history lane, the history moved down by one.
UpdatedAsStated(out, lms, sample, residual) ==
    /\ \A i \in 1..4 :
           out.weights[i] = lms.weights[i]
                            + (IF lms.history[i] < 0 THEN -(residual \div 16)
                               ELSE residual \div 16)
    /\ out.history = <<lms.history[2], lms.history[3], lms.history[4], sample>>

\* C12: in every LMS implementation update(sample, residual) adds delta =
\* residual >> 4 to each weight whose history lane is not negative and
\* subtracts it from the others, and moves the history down by one lane,
\* the sample becoming the last.
C12_UpdateAllImplementations ==
    lm_upd.status # "none" =>
        /\ UpdatedAsStated(lm_upd.scalar, lm_in.lms, lm_in.sample, lm_in.residual)
        /\ UpdatedAsStated(lm_upd.bytes, lm_in.lms, lm_in.sample, lm_in.residual)
        /\ UpdatedAsStated(lm_upd.simd, lm_in.lms, lm_in.sample, lm_in.residual)


(***************************************************************************)
(* Properties of the Encoder.                                              *)
(***************************************************************************)
\* Write i of the sink stands where the serialization order puts it: the
\* file header first and nowhere else, a frame header after the file header
\* or a slice word, the LMS states in channel order after the frame header,
\* the slice words channel by channel after the LMS states.
InOrderAt(sink, i) ==
    IF i = 1 THEN sink[1].kind = "file_header" /\ Len(sink[1].bytes) = 8
    ELSE CASE sink[i].kind = "file_header" -> FALSE
           [] sink[i].kind = "frame_header" ->
                  sink[i - 1].kind \in {"file_header", "slice"}
           [] sink[i].kind = "lms" ->
                  IF sink[i].chn = 0 THEN sink[i - 1].kind = "frame_header"
                  ELSE sink[i - 1].kind = "lms" /\ sink[i - 1].chn = sink[i].chn - 1
           [] sink[i].kind = "slice" ->
                  IF sink[i].chn = 0 THEN sink[i - 1].kind \in {"lms", "slice"}
                  ELSE sink[i - 1].kind = "slice" /\ sink[i - 1].chn = sink[i].chn - 1

\* C13: after any encode / encode_vec calls and close, the sink holds the
\* file header exactly once and first, then per frame its header, the LMS
\* states in channel order and the slice words; no slice word comes before
\* the header and LMS states of its frame.
C13_SerializationOrder ==
    en_out # NotRun => \A i \in 1..Len(en_out.sink) : InOrderAt(en_out.sink, i)


\* The frames of a sink: the positions of its frame headers, the samples a
\* header declares, and the slice words written up to the next header.
Headers(sink) == { i \in 1..Len(sink) : sink[i].kind = "frame_header" }
FrameEnd(sink, i) ==
    IF \E h \in Headers(sink) : h > i
    THEN CHOOSE h \in Headers(sink) : h > i /\ \A g \in Headers(sink) : g > i => h <= g
    ELSE Len(sink) + 1
FrameSlices(sink, i) == { j \in (i + 1)..(FrameEnd(sink, i) - 1) : sink[j].kind = "slice" }
DeclaredSamples(sink, i) == sink[i].bytes[5] * 256 + sink[i].bytes[6]
FrameNumber(sink, i) == Cardinality({ h \in Headers(sink) : h <= i })

\* The calls so far were encode_vec calls that returned Ok, each with all
\* its samples described, at the encoder's rate and with c channels.
PlainCalls(c) ==
    \A i \in 1..Len(en_log.calls) :
        /\ en_log.calls[i].op = "encode_vec"
        /\ en_log.calls[i].ret = "Ok"
        /\ en_log.calls[i].desc =
               Desc(<<en_log.calls[i].n>>, <<EncRate>>, <<c>>)

RECURSIVE SamplesIn(_)
SamplesIn(calls) == IF calls = <<>> THEN 0 ELSE calls[1].n + SamplesIn(Tail(calls))

\* Exactly the samples a fixed encoder declared, or any number of samples
\* on a streaming one, were encoded with c channels, and close handed the
\* sink back.
EncodedAndClosed(c) ==
    /\ en_out # NotRun
    /\ en_log.calls # <<>>
    /\ PlainCalls(c)
    /\ en_log.mode = "fixed" =>
           /\ en_log.channel_count = c
           /\ en_log.sample_count = SamplesIn(en_log.calls)

\* The residual positions from p on of the slice word of a write are zero.
ZeroFrom(write, p) ==
    \A q \in p..19 : Field(FromBeBytes(write.bytes), 59 - 3 * q, 57 - 3 * q) = 0

\* The frames of the sink are those of total samples per channel with c
\* channels: full frames of 256 rows, then a frame declaring the rest.
FramesOf(sink, total, c) ==
    /\ Cardinality(Headers(sink)) = (total + FRAME_LEN - 1) \div FRAME_LEN
    /\ \A i \in Headers(sink) :
           IF FrameNumber(sink, i) <= total \div FRAME_LEN
           THEN Cardinality(FrameSlices(sink, i)) = 256 * c
           ELSE /\ DeclaredSamples(sink, i) = total % FRAME_LEN
                /\ Cardinality(FrameSlices(sink, i)) =
                       (((total % FRAME_LEN) + SLICE_LEN - 1) \div SLICE_LEN) * c
                /\ (total % SLICE_LEN) # 0 =>
                       \A j \in FrameSlices(sink, i) :
                           j > FrameEnd(sink, i) - 1 - c =>
                               ZeroFrom(sink[j], total % SLICE_LEN)

\* C14: encoding k * 5120 samples per channel and closing gives k frames of
\* 256 slice rows; encoding k * 5120 + r samples, 0 < r < 5120, gives k + 1
\* frames, the last declaring r samples in ceil(r / 20) rows, the unused
\* residual positions of a short last slice being zero.
C14_FramesOfTheSamples ==
    \A c \in EncChannels :
        EncodedAndClosed(c) => FramesOf(en_out.sink, SamplesIn(en_log.calls), c)


\* The samples per channel the frame headers of a sink declare in total.
TotalDeclared(sink) ==
    LET RECURSIVE Sum(_, _)
        Sum(lo, hi) ==
            IF lo > hi THEN 0
            ELSE IF lo = hi
                 THEN IF sink[lo].kind = "frame_header" THEN DeclaredSamples(sink, lo) ELSE 0
            ELSE Sum(lo, (lo + hi) \div 2) + Sum((lo + hi) \div 2 + 1, hi)
    IN  Sum(1, Len(sink))

\* A fixed encoder was given fewer samples than it declared, in encode_vec
\* calls of its own rate and channel count, and close handed the sink back.
ClosedShort ==
    /\ en_out # NotRun
    /\ en_log.mode = "fixed"
    /\ en_log.calls # <<>>
    /\ PlainCalls(en_log.channel_count)
    /\ SamplesIn(en_log.calls) < en_log.sample_count

\* C15: when a fixed encoder is closed after fewer samples than declared,
\* close encodes zero samples for the missing ones: the frames in the sink
\* total the declared number of samples per channel.
C15_ClosePadsToDeclared ==
    ClosedShort => TotalDeclared(en_out.sink) = en_log.sample_count


(***************************************************************************)
(* The end of the source at a frame header.                                *)
(***************************************************************************)
\* The next decode_frame call finds the source at its end where it expects
\* a frame header: after the file header when that is still due.
AtHeaderBoundary ==
    IF dc_dec.header
    THEN Len(dc_source) = 8 /\ SubSeq(dc_source, 1, 4) = BytesU32(MAGIC)
    ELSE dc_source = <<>>

\* The mode of the next call, and the samples outstanding in fixed mode.
StreamingNext ==
    IF dc_dec.header THEN SubSeq(dc_source, 5, 8) = <<0, 0, 0, 0>>
    ELSE dc_dec.samples = <<>>
OutstandingNext ==
    IF dc_dec.header THEN SubSeq(dc_source, 5, 8) # <<0, 0, 0, 0>>
    ELSE dc_dec.samples # <<>> /\ dc_dec.samples # << <<0, 0>> >>
ExhaustedNext == ~dc_dec.header /\ dc_dec.samples = << <<0, 0>> >>

\* C16: a decode_frame call that finds the source at its end where a frame
\* header is expected returns Ok(false) in streaming mode and the error Eof
\* in fixed mode while declared samples are outstanding; once the declared
\* count is exhausted it returns Ok(false) and reads nothing.
C16_EndAtFrameHeader ==
    [][/\ (AtHeaderBoundary /\ StreamingNext) =>
              (dc_ret'.status = "ok" /\ dc_ret'.value = FALSE)
       /\ (AtHeaderBoundary /\ OutstandingNext) =>
              (dc_ret'.status = "err" /\ dc_ret'.err = "Eof")
       /\ ExhaustedNext =>
              (dc_ret'.status = "ok" /\ dc_ret'.value = FALSE /\ dc_source' = dc_source)]_vars

\* C16's case: a streaming file of at least one frame was decoded to its
\* end, and the call at the end of the source returned Ok(false).
C16_Witness ==
    /\ dc_ret.status = "ok" /\ dc_ret.value = FALSE
    /\ dc_dec.samples = <<>> /\ ~dc_dec.header
    /\ dc_source = <<>> /\ dc_sink.writes # <<>>

\* What the byte-slice decoder is to do with a frame of s samples and c
\* channels that starts at byte start of the file: ceil(s / 20) rows of c
\* words read, s * c samples appended, decoding continued behind the last
\* slice word.
FrameDecodedWhole(f) ==
    /\ f.words = ((f.samples + SLICE_LEN - 1) \div SLICE_LEN) * f.channels
    /\ f.appended = f.samples * f.channels
    /\ f.next = f.start + 8 + 16 * f.channels + 8 * f.words

\* C17: for a frame whose header declares s samples (1 <= s <= 5120) and c
\* channels, the byte-slice Decoder reads ceil(s/20) slice rows of c words
\* each, appends exactly s*c samples to the sink (of the last row only the
\* first min(20, samples remaining) residuals of each word), and continues
\* decoding at the first byte after the frame's last slice word.  Stated of
\* the first frame of the file, which starts behind the file header.
C17_BytesFrameWhole ==
    (bd_ret # NotRun /\ bd_ret.frames # <<>>)
        => (bd_ret.frames[1].samples \in 1..FRAME_LEN
                => FrameDecodedWhole(bd_ret.frames[1]))

\* The call the step from the current state makes, when it is an encode or
\* encode_vec call: the last entry of the log of the next state.
CallMade == Len(en_log'.calls) = Len(en_log.calls) + 1
LastCall(log) == log.calls[Len(log.calls)]

\* The descriptor of a call reports a sample rate or a channel count other
\* than that of the encoder's descriptor.
ReportsOther(desc, this_desc) ==
    \/ desc.sample_rate # <<>> /\ desc.sample_rate # this_desc.sample_rate
    \/ desc.channel_count # <<>> /\ desc.channel_count # this_desc.channel_count

ReportsPair(desc) == desc.sample_rate # <<>> /\ desc.channel_count # <<>>

\* C19: on a streaming-mode Encoder, the sample rate and channel count are
\* taken from the first source read, and every later encode or encode_vec
\* call whose source reports a different sample rate or channel count
\* returns InvalidDescriptorChange.
C19_StreamingDescriptorChange ==
    [][(en_log # NotRun /\ en_log.mode = "streaming" /\ CallMade)
           => /\ (en_log.calls = <<>> /\ ReportsPair(LastCall(en_log').desc)
                      /\ en_ret'.ret = "Ok")
                     => /\ en_enc'.desc.sample_rate = LastCall(en_log').desc.sample_rate
                        /\ en_enc'.desc.channel_count
                               = LastCall(en_log').desc.channel_count
              /\ (en_log.calls # <<>> /\ ReportsPair(en_log.calls[1].desc)
                      /\ en_log.calls[1].ret = "Ok"
                      /\ ReportsOther(LastCall(en_log').desc, en_log.calls[1].desc))
                     => en_ret'.ret = "InvalidDescriptorChange"]_vars

\* C20: after close() has handed back the sink, the Encoder is closed for
\* good: every further encode, encode_vec or flush call returns
\* Error::Closed whatever the source holds, and every further close()
\* returns None.  en_ret.closed says that the call found the sink taken.
C20_ClosedForGood ==
    (en_ret # NotRun /\ en_out # NotRun /\ en_ret.closed)
        => IF en_ret.op = "close" THEN en_ret.ret = "None" ELSE en_ret.ret = "Closed"

\* C21: for every input byte sequence the byte-slice Decoder::decode
\* returns either Ok or an error value and never panics: it never slices
\* past the end of the input and never underflows its remaining-sample
\* counter, also for streaming files (declared count 0), frame headers
\* declaring 0 channels, and frame headers declaring more samples than
\* remain of the declared count.
C21_BytesDecodeNoPanic ==
    bd_ret # NotRun => bd_ret.status \in {"done", "err"}

(***************************************************************************)
(* Properties of the PCM buffer and frame.                                 *)
(***************************************************************************)
\* A PcmBuffer::read call has been made, into a frame that nothing was
\* written to before.
ReadMade == pcm_read.status \in {"loop", "done", "panic"} /\ pcm_log.blocks = 0

\* The loop of read has made no more turns than the frames and the samples
\* the buffer held at the call allow, when every turn removes a frame or
\* delivers a sample.
ReadBounded == pcm_read.turns <= pcm_read.frames + pcm_read.held * pcm_sink.chan

\* What read returned is at most sample_count, and it is the number of
\* samples per channel the sink has grown by.
ReadDelivered ==
    pcm_read.status = "done"
        => /\ pcm_read.ret <= pcm_read.sample_count
           /\ pcm_sink.len = pcm_read.sunk + pcm_read.ret

\* read returned 0 for a sample_count above 0 only when no sample is left.
ReadZeroAtEnd ==
    (pcm_read.status = "done" /\ pcm_read.sample_count > 0 /\ pcm_read.ret = 0)
        => PcmBuffer_len(pcm_buf) = 0

\* C22: PcmBuffer::read(sink, max_samples) terminates for every buffer
\* content and every max_samples, delivers at most max_samples samples per
\* channel to the sink, returns the number delivered, and returns 0 only
\* when the buffer holds no more samples, so repeated reads drain the
\* buffer and stop.
C22_ReadDrains ==
    ReadMade => /\ pcm_read.status # "panic"
                /\ ReadBounded
                /\ ReadDelivered
                /\ ReadZeroAtEnd

\* Sample i (from 1) of channel c of the block last written is at
\* interleaved index (old_len + i - 1) * N + c of the frame.
BlockStored(c, i) ==
    /\ (pcm_log.old_len + i - 1) * pcm_sink.chan + c + 1 <= Len(pcm_sink.data)
    /\ pcm_sink.data[(pcm_log.old_len + i - 1) * pcm_sink.chan + c + 1]
           = pcm_log.block[c + 1][i]

\* C23: after a block of n samples has been written to each channel 0..N-1
\* of a PcmFrame with free capacity, in channel order, through
\* write(buf, chn), the frame's len() has grown by n and sample i of channel
\* c of the block is stored at interleaved index (old_len + i)*N + c, for
\* every channel count N >= 1 and every number of blocks already written.
C23_BlockInterleaved ==
    (pcm_log # NotRun /\ pcm_read.status = "idle" /\ pcm_log.blocks >= 1 /\ pcm_log.free)
        => /\ pcm_log.status = "ok"
           /\ Len(pcm_log.block) = pcm_sink.chan
                  => /\ pcm_sink.len = pcm_log.old_len + pcm_log.n
                     /\ \A c \in 0..(pcm_sink.chan - 1), i \in 1..pcm_log.n :
                            BlockStored(c, i)

(***************************************************************************)
(* The size field of a frame header.                                       *)
(***************************************************************************)
\* C27: for every channel count in 1..255 and every slice count in 1..256,
\* the 16-bit size field the encoder writes in the frame header equals
\* 24*channels + 8*slices*channels, the computation never leaving the
\* 16-bit range.  The field is the last two bytes of the header.
C27_FrameSizeField ==
    (wire_in.kind = "frame" /\ wire_bytes # <<>>
        /\ wire_in.header.channels \in 1..255 /\ wire_in.header.slices \in 1..256)
        => wire_bytes[7] * 256 + wire_bytes[8]
               = 24 * wire_in.header.channels
                 + 8 * wire_in.header.slices * wire_in.header.channels

(***************************************************************************)
(* The sample rate of a QoaEncoder.                                        *)
(***************************************************************************)
\* The writes of frame headers in the sink of encode.
QoaFrameHeaders == { i \in 1..Len(qe_sink) : qe_sink[i].kind = "frame_header" }

\* The 24-bit rate field of the frame header bytes b.
RateField(b) == b[2] * 65536 + b[3] * 256 + b[4]

\* C24: QoaEncoder::new keeps the low 24 bits of sample_rate: for every
\* rate in [1, 2^24) the encoder is configured with that rate, and every
\* frame header encode has written carries it in its rate field.
C24_RateKept ==
    (qe_ret # NotRun /\ qe_log.sample_rate \in 1..16777215)
        => /\ qe_enc.options.sample_rate = qe_log.sample_rate
           /\ \A i \in QoaFrameHeaders : RateField(qe_sink[i].bytes) = qe_log.sample_rate

(***************************************************************************)
(* The range of the LMS weights.                                           *)
(***************************************************************************)
\* C25: from the default LMS state, after any sequence of sample updates
\* by the encoder or the decoder, with dequantized residuals of
\* DEQUANT_TABLE and reconstructed samples of 16 bits, every weight stays
\* within [-32768, 32767]: no update computes a weight beyond its signed
\* 16-bit lane, so that the lanes hold the state exactly.
C25_WeightsInRange ==
    wg_log # NotRun
        => /\ wg_log.status = "ok"
           /\ \A i \in 1..4 : /\ wg_log.sums[i] \in -32768..32767
                              /\ wg_lms.weights[i] = wg_log.sums[i]

(***************************************************************************)
(* The bounds of a frame.                                                  *)
(***************************************************************************)
\* The writes made to the sink so far: those close handed back, or those
\* of the sink the encoder still holds.
EncSink ==
    IF en_out # NotRun THEN en_out.sink
    ELSE IF en_enc.sink # <<>> THEN en_enc.sink[1]
    ELSE <<>>

\* The frame of header i is over: another header follows or the encoder is
\* closed.
FrameOver(sink, i) == en_out # NotRun \/ FrameEnd(sink, i) <= Len(sink)

\* Frame.slice_index <= Frame.slice_count <= 256.
SliceIndexBounded ==
    /\ en_enc.frame.slice_index <= en_enc.frame.slice_count
    /\ en_enc.frame.slice_count <= FRAME_LEN \div SLICE_LEN

\* Header i declares at most 5120 samples per channel.
DeclaresAFrame(sink, i) == DeclaredSamples(sink, i) <= FRAME_LEN

\* The frame of header i, once over, holds the slice rows of the samples it
\* declares, one word per channel in each.
HoldsDeclared(sink, i) ==
    FrameOver(sink, i)
        => Cardinality(FrameSlices(sink, i))
               = ((DeclaredSamples(sink, i) + SLICE_LEN - 1) \div SLICE_LEN) * sink[i].bytes[1]

\* C26: for any total sample count, also above 5120, every frame header
\* the Encoder writes declares at most 5120 samples, the number of samples
\* per channel encoded in its frame, in ceil(samples / 20) <= 256 slice
\* rows; and always Frame.slice_index <= Frame.slice_count <= 256.
C26_FrameBounds ==
    en_log # NotRun
        => /\ SliceIndexBounded
           /\ \A i \in Headers(EncSink) :
                  DeclaresAFrame(EncSink, i) /\ HoldsDeclared(EncSink, i)

(***************************************************************************)
(* The samples handed to the slice encoder.                                *)
(***************************************************************************)
\* The blocks of samples in one sequence.
RECURSIVE Flatten(_)
Flatten(blocks) == IF blocks = <<>> THEN <<>> ELSE blocks[1] \o Flatten(Tail(blocks))

\* The first call made on the encoder was an encode_vec call that returned
\* Ok for a vector with all of it described, at the encoder's rate.
FirstVecEncoded ==
    /\ en_ret # NotRun
    /\ en_ret.op = "encode_vec" /\ en_ret.ret = "Ok"
    /\ Len(en_log.calls) = 1
    /\ \E c \in EncChannels : en_log.calls[1].desc = Desc(<<en_log.calls[1].n>>, <<EncRate>>, <<c>>)

\* C28: across the enc_frame calls of one encode_vec call every interleaved
\* sample of the source is handed to the slice encoder once and in source
\* order, the samples consumed being removed from the front of the source
\* and those moved to the frame's buffer not offered again: the blocks
\* handed to enc_slice, followed by what the frame's buffer still holds,
\* are the vector.
C28_FedOnceInOrder ==
    FirstVecEncoded
        => Flatten(en_ret.fed) \o en_enc.frame.buffer
               = VecOf(en_log.calls[1].n, en_log.calls[1].desc)


(***************************************************************************)
(* Properties of the slice driver and of the slice replay.                 *)
(***************************************************************************)
\* The block is of slice width: SLICE_LEN samples of every channel.
SliceWidthBlock == Len(sc_samples) = SLICE_LEN * sc_channels

\* C29: for a slice-width block of interleaved samples, any channel count
\* and any LMS states, enc_slice writes for channel chn the 64-bit word
\* LinearScaler::scale returns for that block, channel and state, and
\* leaves in lms[chn] the state the scaler leaves.
C29_DriverIsScaler ==
    (SliceWidthBlock /\ lin.status = "ok" /\ drv.status = "ok")
        => /\ drv.sink[sc_chn + 1].bytes = BytesU64(lin.word)
           /\ drv.lms[sc_chn + 1] = lin.lms

\* C30: the word LinearScaler::scale returned, decoded by the sample loops
\* of the decoders from the LMS state the scaler started from, gives the
\* samples the scaler reconstructed for the winning scale factor and ends
\* in the LMS state the scaler left to its caller.
C30_LockStep ==
    rep.status = "ok"
        => /\ rep.decoder.buf = rep.scaler
           /\ rep.decoder.lms = lin.lms
           /\ rep.bytes.buf = rep.scaler
           /\ rep.bytes.lms = lin.lms

====
